---- MODULE Spec2Model ----
(***************************************************************************)
(* Model of src/src/hooks/useDatasets.ts.                                  *)
(* The hook useDatasets: time-boxed single-slot cache, retry timers,       *)
(* reload, mount/unmount.  One consumer is mounted at a time; the cache is *)
(* module-global and survives unmounts.  Time is in milliseconds.          *)
(* The DataLoader the hook calls: the record and collection validators,    *)
(* loadDatasets and checkFileExists, in both variants the file holds.      *)
(***************************************************************************)
EXTENDS Integers, Sequences, FiniteSets, Bags, TLC

\* ---------------------------------------------------------------- bounds
MaxTime == 3000        \* the clock stops advancing here
MaxPending == 2        \* Loader calls and timers outstanding at once
MaxRetriesOpt == 4     \* largest maxRetries option tried

TickSteps == {1000}

\* ------------------------------------------------------- option type
None == <<>>
Some(x) == <<x>>
Val(o) == o[1]

\* ------------------------------------------------------- Loader outcomes
RecordLists == {<<"us">>, <<"us", "fr">>}

\* DataLoaderErrorCode / ERROR_MESSAGES, with the recoverable flag each
\* throw site of DataLoader.loadDatasets passes to DataLoaderError.
ERROR_MESSAGES ==
  [ NETWORK_ERROR |-> "Unable to connect to the server. Please check your internet connection and try again.",
    PARSE_ERROR |-> "The data format is invalid. Please contact support if this problem persists.",
    VALIDATION_ERROR |-> "Some data entries are invalid and have been filtered out.",
    FILE_NOT_FOUND |-> "The requested file could not be found.",
    PERMISSION_ERROR |-> "You do not have permission to access this resource.",
    TIMEOUT_ERROR |-> "The request timed out. Please try again.",
    UNKNOWN_ERROR |-> "An unexpected error occurred. Please try again or contact support." ]

DataLoaderError(message, code, recoverable) ==
  [message |-> message, code |-> code, recoverable |-> recoverable]

EnvelopeValidationError ==
  DataLoaderError(ERROR_MESSAGES.VALIDATION_ERROR, "VALIDATION_ERROR", FALSE)

NoValidDatasetsError ==
  DataLoaderError("No valid datasets found. Using fallback data.", "VALIDATION_ERROR", TRUE)

TransportError(code) ==
  DataLoaderError(ERROR_MESSAGES[code], code,
                  code \notin {"PARSE_ERROR", "FILE_NOT_FOUND", "PERMISSION_ERROR"})

\* failures the hook is driven with: a recoverable and a non-recoverable one
LoaderErrors ==
  {TransportError("TIMEOUT_ERROR"), TransportError("PARSE_ERROR")}

\* ---------------------------------------------------------------- options
\* the default retryDelay with backoff (autoLoad on and off), and a flat
\* retryDelay of half a second
Options ==
  { o \in [ autoLoad : BOOLEAN,
            cacheDuration : {2000},
            maxRetries : 0..MaxRetriesOpt,
            retryDelay : {500, 1000},
            exponentialBackoff : BOOLEAN ] :
      \/ o.retryDelay = 1000 /\ o.exponentialBackoff
      \/ o.retryDelay = 500 /\ ~o.exponentialBackoff /\ o.autoLoad }

VARIABLES
  opts,             \* the options the hook is called with
  now,              \* Date.now()
  dataCache,        \* dataCache.get(CACHE_KEY): None or Some([data, timestamp])
  phase,            \* "rendered" (before the mount effect), "mounted", "unmounted"
  data, loading, error, retryCount,   \* useState of the current instance
  isMountedRef,     \* isMountedRef.current of the current instance
  calls,            \* bag of outstanding DataLoader.loadDatasets() calls
  timers,           \* bag of pending setTimeout callbacks; ref marks the one
                    \* retryTimeoutRef.current names
  last,             \* observer: the last operation and what it met
  input,            \* DataLoader: what the operation under way is given
  pc,               \* DataLoader: where the operation under way stands
  output,           \* DataLoader: None, or Some(what the operation gave)
  locals,           \* DataLoader: None, or Some(the local variables of the
                    \* downloadSampleFile call under way)
  sampleFiles,      \* None, or Some(the useSampleFileStatus instance)
  center            \* None, or Some(the DatabaseCenter instance)

hookVars == <<opts, now, dataCache, phase, data, loading, error, retryCount,
              isMountedRef, calls, timers, last>>

loaderVars == <<input, pc, output>>

pageVars == <<locals, sampleFiles, center>>

vars == <<hookVars, loaderVars, pageVars>>

\* no download under way, nothing of the page rendered
PageAtRest ==
  /\ locals = None
  /\ sampleFiles = None
  /\ center = None

\* ------------------------------------------------------------ helpers
Pow2(n) == IF n <= 0 THEN 1 ELSE 2 ^ n

\* Math.ceil(delay / 1000) for delay >= 0
CeilSeconds(delay) == (delay + 999) \div 1000

\* isCacheValid with the expiry instant still counted as valid
isCacheValid_Inclusive(c) ==
  IF c = None THEN FALSE
  ELSE (now - Val(c).timestamp) <= opts.cacheDuration

\* isCacheValid
isCacheValid(c) ==
  IF c = None THEN FALSE
  ELSE (now - Val(c).timestamp) < opts.cacheDuration

\* getCachedData: Some(records) or None (null)
getCachedData(c) ==
  IF isCacheValid(c) THEN Some(Val(c).data) ELSE None

\* setCachedData that keeps the timestamp of the entry it replaces
setCachedData_KeepsTimestamp(datasets) ==
  Some([data |-> datasets,
        timestamp |-> IF dataCache # None THEN Val(dataCache).timestamp ELSE now])

\* setCachedData
setCachedData(datasets) == Some([data |-> datasets, timestamp |-> now])

\* calculateRetryDelay with the exponent off by one
calculateRetryDelay_OffByOne(attempt) ==
  IF ~opts.exponentialBackoff THEN opts.retryDelay
  ELSE opts.retryDelay * Pow2(attempt)

\* calculateRetryDelay
calculateRetryDelay(attempt) ==
  IF ~opts.exponentialBackoff THEN opts.retryDelay
  ELSE opts.retryDelay * Pow2(attempt - 1)

\* `${errorMessage} (retrying in ${Math.ceil(delay / 1000)}s...)`
RetryingMessage(errorMessage, delay) == <<errorMessage, CeilSeconds(delay)>>
PlainMessage(errorMessage) == <<errorMessage>>

Pending == BagCardinality(calls) + BagCardinality(timers)

One(x) == SetToBag({x})

\* isMountedRef.current as seen by a continuation (Loader call or timer) x:
\* every instance that has unmounted has its ref at false for good
Mounted(x) == x.owner = "current" /\ isMountedRef

Orphan(x) == [x EXCEPT !.owner = "unmounted", !.superseded = FALSE]

\* the instance owning these continuations has unmounted
Orphaned(B) == BagOfAll(Orphan, B)

\* observer: a reload() starts a new cycle; what the cycles before it left
\* outstanding is marked, the code keeps no such mark
Supersede(x) == IF x.owner = "current" THEN [x EXCEPT !.superseded = TRUE] ELSE x
Superseded(B) == BagOfAll(Supersede, B)

\* retryTimeoutRef.current = setTimeout(...): the new timer is the one the ref
\* names, the timer it named before (if still pending) no longer is
Unref(t) == [t EXCEPT !.ref = FALSE]
SetRetryTimeout(B, t) == BagOfAll(Unref, B) (+) One([t EXCEPT !.ref = TRUE])

\* clearTimeout(retryTimeoutRef.current)
ClearRetryTimeout(B) ==
  LET named == {t \in BagToSet(B) : t.ref} IN B (-) SetToBag(named)

\* ------------------------------------------------------------ loadData
\* loadData(attempt) up to its await, run on the cache value c and with the
\* outstanding calls cs; sup tells whether the cycle it continues has been
\* superseded by a reload().
loadData(attempt, c, cs, sup) ==
  IF ~isMountedRef
  THEN /\ calls' = cs
       /\ UNCHANGED <<data, loading, error>>
  ELSE IF getCachedData(c) # None /\ attempt = 1
  THEN /\ data' = getCachedData(c)
       /\ loading' = FALSE
       /\ error' = None
       /\ calls' = cs
  ELSE /\ loading' = TRUE
       /\ calls' = cs (+) One([owner |-> "current", attempt |-> attempt, superseded |-> sup])
       /\ UNCHANGED <<data, error>>

\* the retry counter loadData(attempt) leaves, given the counter rc before it
loadDataRetryCount(attempt, c, rc) ==
  IF ~isMountedRef THEN rc
  ELSE IF getCachedData(c) # None /\ attempt = 1 THEN 0
  ELSE attempt - 1

\* ------------------------------------------------------------ actions
Init ==
  /\ opts \in Options
  /\ now = 0
  /\ dataCache = None
  /\ phase = "rendered"
  /\ data = None
  /\ loading = FALSE
  /\ error = None
  /\ retryCount = 0
  /\ isMountedRef = TRUE
  /\ calls = EmptyBag
  /\ timers = EmptyBag
  /\ last = <<"render">>
  /\ input = None
  /\ pc = "idle"
  /\ output = None
  /\ PageAtRest

\* the mount effect: if (autoLoad) loadData()
MountEffect ==
  /\ phase = "rendered"
  /\ Pending < MaxPending
  /\ phase' = "mounted"
  /\ IF opts.autoLoad
     THEN /\ loadData(1, dataCache, calls, FALSE)
          /\ retryCount' = loadDataRetryCount(1, dataCache, retryCount)
     ELSE UNCHANGED <<data, loading, error, retryCount, calls>>
  /\ last' = <<"mount", isCacheValid(dataCache)>>
  /\ UNCHANGED <<loaderVars, pageVars, opts, now, dataCache, isMountedRef, timers>>

\* reload() without its clearCache()
reload_KeepsCache ==
  /\ phase = "mounted"
  /\ Pending < MaxPending
  /\ dataCache' = dataCache
  /\ loadData(1, dataCache, Superseded(calls), FALSE)
  /\ retryCount' = loadDataRetryCount(1, dataCache, 0)
  /\ timers' = Superseded(timers)
  /\ last' = <<"reload", isCacheValid(dataCache)>>
  /\ UNCHANGED <<loaderVars, pageVars, opts, now, phase, isMountedRef>>

\* reload(): clearCache(); setRetryCount(0); await loadData(1)
reload ==
  /\ phase = "mounted"
  /\ Pending < MaxPending
  /\ dataCache' = None
  /\ loadData(1, None, Superseded(calls), FALSE)
  /\ retryCount' = loadDataRetryCount(1, None, 0)
  /\ timers' = Superseded(timers)
  /\ last' = <<"reload", isCacheValid(dataCache)>>
  /\ UNCHANGED <<loaderVars, pageVars, opts, now, phase, isMountedRef>>

\* clearCache()
clearCache ==
  /\ phase = "mounted"
  /\ dataCache # None
  /\ dataCache' = None
  /\ last' = <<"clearCache">>
  /\ UNCHANGED <<loaderVars, pageVars, opts, now, phase, data, loading, error, retryCount,
                 isMountedRef, calls, timers>>

\* the resolve continuation without its isMountedRef checks
LoaderResolve_NoMountCheck(c, datasets) ==
  /\ BagIn(c, calls)
  /\ calls' = calls (-) One(c)
  /\ data' = Some(datasets)
  /\ error' = None
  /\ retryCount' = 0
  /\ dataCache' = setCachedData(datasets)
  /\ loading' = FALSE
  /\ last' = <<"resolve", Mounted(c)>>
  /\ UNCHANGED <<loaderVars, pageVars, opts, now, phase, isMountedRef, timers>>

\* DataLoader.loadDatasets() resolves: the rest of the try block and finally
LoaderResolve(c, datasets) ==
  /\ BagIn(c, calls)
  /\ calls' = calls (-) One(c)
  /\ IF ~Mounted(c)
     THEN UNCHANGED <<data, loading, error, retryCount, dataCache>>
     ELSE /\ data' = Some(datasets)
          /\ error' = None
          /\ retryCount' = 0
          /\ dataCache' = setCachedData(datasets)
          /\ loading' = FALSE
  /\ last' = <<"resolve", Mounted(c)>>
  /\ UNCHANGED <<loaderVars, pageVars, opts, now, phase, isMountedRef, timers>>

\* a catch block that deletes the cache entry when it gives up
LoaderReject_FailedDropsCache(c, err) ==
  /\ BagIn(c, calls)
  /\ calls' = calls (-) One(c)
  /\ IF ~Mounted(c)
     THEN UNCHANGED <<data, loading, error, retryCount, timers, dataCache>>
     ELSE IF c.attempt < opts.maxRetries
     THEN /\ LET delay == calculateRetryDelay(c.attempt) IN
               /\ timers' = SetRetryTimeout(timers,
                                [owner |-> c.owner, attempt |-> c.attempt,
                                 superseded |-> c.superseded,
                                 delay |-> delay, set |-> now, ref |-> TRUE])
               /\ error' = RetryingMessage(err.message, delay)
          /\ loading' = FALSE
          /\ UNCHANGED <<data, retryCount, dataCache>>
     ELSE /\ data' = None
          /\ error' = PlainMessage(err.message)
          /\ retryCount' = opts.maxRetries
          /\ loading' = FALSE
          /\ dataCache' = None
          /\ UNCHANGED timers
  /\ last' = <<"reject", Mounted(c), err.recoverable>>
  /\ UNCHANGED <<loaderVars, pageVars, opts, now, phase, isMountedRef>>

\* DataLoader.loadDatasets() rejects: the catch block and finally
LoaderReject(c, err) ==
  /\ BagIn(c, calls)
  /\ calls' = calls (-) One(c)
  /\ IF ~Mounted(c)
     THEN UNCHANGED <<data, loading, error, retryCount, timers>>
     ELSE IF c.attempt < opts.maxRetries
     THEN /\ LET delay == calculateRetryDelay(c.attempt) IN
               /\ timers' = SetRetryTimeout(timers,
                                [owner |-> c.owner, attempt |-> c.attempt,
                                 superseded |-> c.superseded,
                                 delay |-> delay, set |-> now, ref |-> TRUE])
               /\ error' = RetryingMessage(err.message, delay)
          /\ loading' = FALSE
          /\ UNCHANGED <<data, retryCount>>
     ELSE /\ data' = None
          /\ error' = PlainMessage(err.message)
          /\ retryCount' = opts.maxRetries
          /\ loading' = FALSE
          /\ UNCHANGED timers
  /\ last' = <<"reject", Mounted(c), err.recoverable>>
  /\ UNCHANGED <<loaderVars, pageVars, opts, now, dataCache, phase, isMountedRef>>

\* a retry timer fires: if (isMountedRef.current) loadData(attempt + 1)
TimerFire(t) ==
  /\ BagIn(t, timers)
  /\ now - t.set >= t.delay
  /\ timers' = timers (-) One(t)
  /\ IF Mounted(t)
     THEN /\ loadData(t.attempt + 1, dataCache, calls, t.superseded)
          /\ retryCount' = loadDataRetryCount(t.attempt + 1, dataCache, retryCount)
     ELSE UNCHANGED <<data, loading, error, retryCount, calls>>
  /\ last' = <<"timer", Mounted(t)>>
  /\ UNCHANGED <<loaderVars, pageVars, opts, now, dataCache, phase, isMountedRef>>

\* unmount: both effect cleanups
Unmount ==
  /\ phase = "mounted"
  /\ phase' = "unmounted"
  /\ isMountedRef' = FALSE
  /\ timers' = Orphaned(ClearRetryTimeout(timers))
  /\ calls' = Orphaned(calls)
  /\ last' = <<"unmount">>
  /\ UNCHANGED <<loaderVars, pageVars, opts, now, dataCache, data, loading, error, retryCount>>

\* the component is mounted again: a fresh hook instance, same module cache
Remount ==
  /\ phase = "unmounted"
  /\ phase' = "rendered"
  /\ data' = None
  /\ loading' = FALSE
  /\ error' = None
  /\ retryCount' = 0
  /\ isMountedRef' = TRUE
  /\ last' = <<"render">>
  /\ UNCHANGED <<loaderVars, pageVars, opts, now, dataCache, calls, timers>>

\* time passes
Tick(d) ==
  /\ now + d <= MaxTime
  /\ now' = now + d
  /\ UNCHANGED <<loaderVars, pageVars, opts, dataCache, phase, data, loading, error, retryCount,
                 isMountedRef, calls, timers, last>>

Next ==
  \/ MountEffect
  \/ reload
  \/ clearCache
  \/ \E c \in BagToSet(calls), datasets \in RecordLists : LoaderResolve(c, datasets)
  \/ \E c \in BagToSet(calls), err \in LoaderErrors : LoaderReject(c, err)
  \/ \E t \in BagToSet(timers) : TimerFire(t)
  \/ Unmount
  \/ Remount
  \/ \E d \in TickSteps : Tick(d)

Spec == Init /\ [][Next]_vars

\* every Loader call fails with a recoverable error
NextRecoverable ==
  \/ MountEffect
  \/ reload
  \/ \E c \in BagToSet(calls), err \in {e \in LoaderErrors : e.recoverable} :
       LoaderReject(c, err)
  \/ \E t \in BagToSet(timers) : TimerFire(t)
  \/ Unmount
  \/ Remount
  \/ \E d \in TickSteps : Tick(d)

SpecRecoverable == Init /\ [][NextRecoverable]_vars

\* ------------------------------------------------------- effect re-run
\* a render with other options: loadData is a new callback, so React runs
\* the cleanup of the mount effect (isMountedRef.current = false;
\* clearTimeout) and then the effect again, whose loadData() returns at its
\* first line; useRef(true) is not evaluated again
OptionsChange ==
  /\ phase = "mounted"
  /\ \E o \in Options \ {opts} : opts' = o
  /\ isMountedRef' = FALSE
  /\ timers' = ClearRetryTimeout(timers)
  /\ last' = <<"rerun", isMountedRef>>
  /\ UNCHANGED <<loaderVars, pageVars, now, dataCache, phase, data, loading, error,
                 retryCount, calls>>

NextRerun ==
  \/ Next
  \/ OptionsChange

SpecRerun == Init /\ [][NextRerun]_vars

\* ------------------------------------------------------- JavaScript values
\* A value is a record tagged with its kind.  A number is the ratio num/den;
\* den = 0 stands for NaN.  An object holds one entry per property name the
\* model reads, Undefined standing for a property that is not there (a JSON
\* document never holds undefined, so "own property" is "not Undefined").
Undefined == [type |-> "undefined"]
Null == [type |-> "null"]
Bool(b) == [type |-> "boolean", bool |-> b]
Ratio(n, d) == [type |-> "number", num |-> n, den |-> d]
Num(n) == Ratio(n, 1)
NaN == Ratio(0, 0)
Str(s) == [type |-> "string", str |-> s]
Arr(items) == [type |-> "array", items |-> items]
Obj(fields) == [type |-> "object", fields |-> fields]

\* typeof v
typeof(v) ==
  IF v.type \in {"null", "array", "object"} THEN "object" ELSE v.type

\* !!v
Truthy(v) ==
  CASE v.type \in {"undefined", "null"} -> FALSE
    [] v.type = "boolean" -> v.bool
    [] v.type = "number" -> v.den # 0 /\ v.num # 0
    [] v.type = "string" -> v.str # ""
    [] OTHER -> TRUE

\* v[f] for a v that is neither null nor undefined
Get(v, f) ==
  IF v.type = "object" /\ f \in DOMAIN v.fields THEN v.fields[f] ELSE Undefined

\* v.hasOwnProperty(f)
hasOwnProperty(v, f) == Get(v, f) # Undefined

\* Array.isArray(v)
isArray(v) == v.type = "array"

\* Number.isInteger(v) for a number v
isInteger(v) == v.den # 0 /\ v.num % v.den = 0

\* ------------------------------------------------------- strings
CharAt(s, i) == SubSeq(s, i, i)

LowerCase == "abcdefghijklmnopqrstuvwxyz"
UpperCase == "ABCDEFGHIJKLMNOPQRSTUVWXYZ"
Digits == "0123456789"
Whitespace == " \t\n\r"

IsIn(c, alphabet) == \E i \in 1..Len(alphabet) : CharAt(alphabet, i) = c

AllIn(s, alphabet) == \A i \in 1..Len(s) : IsIn(CharAt(s, i), alphabet)

RECURSIVE Repeat(_, _)
Repeat(c, n) == IF n = 0 THEN "" ELSE c \o Repeat(c, n - 1)

RECURSIVE trimStart(_)
trimStart(s) ==
  IF Len(s) > 0 /\ IsIn(CharAt(s, 1), Whitespace)
  THEN trimStart(SubSeq(s, 2, Len(s)))
  ELSE s

RECURSIVE trimEnd(_)
trimEnd(s) ==
  IF Len(s) > 0 /\ IsIn(CharAt(s, Len(s)), Whitespace)
  THEN trimEnd(SubSeq(s, 1, Len(s) - 1))
  ELSE s

trim(s) == trimEnd(trimStart(s))

RECURSIVE toLowerCase(_)
toLowerCase(s) ==
  IF Len(s) = 0 THEN ""
  ELSE LET c == CharAt(s, 1)
           l == IF IsIn(c, UpperCase)
                THEN CharAt(LowerCase, CHOOSE i \in 1..Len(UpperCase) : CharAt(UpperCase, i) = c)
                ELSE c
       IN l \o toLowerCase(SubSeq(s, 2, Len(s)))

includes(s, sub) ==
  \E i \in 1..(Len(s) - Len(sub) + 1) : SubSeq(s, i, i + Len(sub) - 1) = sub

endsWith(s, suffix) ==
  Len(s) >= Len(suffix) /\ SubSeq(s, Len(s) - Len(suffix) + 1, Len(s)) = suffix

IsDigits(s) == Len(s) >= 1 /\ AllIn(s, Digits)

\* pattern.test(s) for the regular expressions of the validators ("$" without
\* the m flag is the end of the input)
Test(pattern, s) ==
  CASE pattern = "^[a-z0-9-]+$" ->
         Len(s) >= 1 /\ AllIn(s, LowerCase \o Digits \o "-")
    [] pattern = "^[A-Z]{2}$" ->
         Len(s) = 2 /\ AllIn(s, UpperCase)
    [] pattern = "\\.csv$" ->
         endsWith(s, ".csv")
    [] pattern = "^\\d{4}-\\d{2}-\\d{2}$" ->
         /\ Len(s) = 10
         /\ \A i \in 1..10 : IF i \in {5, 8} THEN CharAt(s, i) = "-"
                                           ELSE IsIn(CharAt(s, i), Digits)
    [] pattern = "^\\d+\\.\\d+\\.\\d+$" ->
         \E i, j \in 1..Len(s) :
           /\ i < j
           /\ CharAt(s, i) = "." /\ CharAt(s, j) = "."
           /\ IsDigits(SubSeq(s, 1, i - 1))
           /\ IsDigits(SubSeq(s, i + 1, j - 1))
           /\ IsDigits(SubSeq(s, j + 1, Len(s)))

\* ------------------------------------------------------- record validator
\* ValidationError, without the value and the path
FieldError(field, message) == [field |-> field, message |-> message]

\* { isValid: errors.length === 0, errors, warnings }
ValidationResult(errors, warnings) ==
  [isValid |-> Len(errors) = 0, errors |-> errors, warnings |-> warnings]

RECURSIVE Flatten(_)
Flatten(seqs) ==
  IF Len(seqs) = 0 THEN <<>> ELSE Head(seqs) \o Flatten(Tail(seqs))

Quoted(s) == "\"" \o s \o "\""

\* the rule table of validateDatasetDetailed; 0 and "" stand for a rule the
\* entry does not have
fieldValidations ==
  << [field |-> "id", required |-> TRUE, type |-> "string",
      minLength |-> 0, maxLength |-> 0, pattern |-> "^[a-z0-9-]+$",
      patternMessage |-> "ID must contain only lowercase letters, numbers, and hyphens"],
     [field |-> "countryName", required |-> TRUE, type |-> "string",
      minLength |-> 2, maxLength |-> 100, pattern |-> "", patternMessage |-> ""],
     [field |-> "countryCode", required |-> TRUE, type |-> "string",
      minLength |-> 0, maxLength |-> 0, pattern |-> "^[A-Z]{2}$",
      patternMessage |-> "Country code must be exactly 2 uppercase letters"],
     [field |-> "region", required |-> TRUE, type |-> "string",
      minLength |-> 2, maxLength |-> 50, pattern |-> "", patternMessage |-> ""],
     [field |-> "sampleFileName", required |-> TRUE, type |-> "string",
      minLength |-> 0, maxLength |-> 0, pattern |-> "\\.csv$",
      patternMessage |-> "Sample filename must end with .csv"] >>

\* one turn of the loop over fieldValidations: what it pushes
validateStringField(validation, value) ==
  LET f == validation.field
      Err(m) == <<FieldError(f, m)>>
      Only(errors) == [errors |-> errors, warnings |-> <<>>]
  IN
  IF validation.required /\ value.type \in {"undefined", "null"}
  THEN Only(Err("Required field " \o Quoted(f) \o " is missing"))
  ELSE IF value.type \in {"undefined", "null"}
  THEN Only(<<>>)
  ELSE IF typeof(value) # validation.type
  THEN Only(Err("Field " \o Quoted(f) \o " must be of type " \o validation.type))
  ELSE IF trim(value.str) = ""
  THEN Only(Err("Field " \o Quoted(f) \o " cannot be empty"))
  ELSE
    [ errors |->
        (IF validation.minLength # 0 /\ Len(value.str) < validation.minLength
         THEN Err("Field " \o Quoted(f) \o " must be at least "
                  \o ToString(validation.minLength) \o " characters")
         ELSE <<>>)
        \o
        (IF validation.pattern # "" /\ ~Test(validation.pattern, value.str)
         THEN Err(validation.patternMessage)
         ELSE <<>>),
      warnings |->
        IF validation.maxLength # 0 /\ Len(value.str) > validation.maxLength
        THEN <<FieldError(f, "Field " \o Quoted(f) \o " is longer than recommended "
                             \o ToString(validation.maxLength) \o " characters")>>
        ELSE <<>> ]

PostalCodeCountWarnAbove == 10000000

validatePostalCodeCount_Inclusive(postalCodeCount) ==
  LET Err(m) == [errors |-> <<FieldError("postalCodeCount", m)>>, warnings |-> <<>>]
  IN
  IF postalCodeCount.type \in {"undefined", "null"}
  THEN Err("Required field \"postalCodeCount\" is missing")
  ELSE IF typeof(postalCodeCount) # "number"
  THEN Err("Field \"postalCodeCount\" must be a number")
  ELSE IF ~isInteger(postalCodeCount)
  THEN Err("Field \"postalCodeCount\" must be an integer")
  ELSE IF postalCodeCount.num <= 0
  THEN Err("Field \"postalCodeCount\" must be greater than 0")
  ELSE IF postalCodeCount.num >= PostalCodeCountWarnAbove * postalCodeCount.den
  THEN [errors |-> <<>>,
        warnings |-> <<FieldError("postalCodeCount",
                         "Field \"postalCodeCount\" seems unusually high (>10M)")>>]
  ELSE [errors |-> <<>>, warnings |-> <<>>]

\* the postalCodeCount chain of validateDatasetDetailed
validatePostalCodeCount(postalCodeCount) ==
  LET Err(m) == [errors |-> <<FieldError("postalCodeCount", m)>>, warnings |-> <<>>]
  IN
  IF postalCodeCount.type \in {"undefined", "null"}
  THEN Err("Required field \"postalCodeCount\" is missing")
  ELSE IF typeof(postalCodeCount) # "number"
  THEN Err("Field \"postalCodeCount\" must be a number")
  ELSE IF ~isInteger(postalCodeCount)
  THEN Err("Field \"postalCodeCount\" must be an integer")
  ELSE IF postalCodeCount.num <= 0
  THEN Err("Field \"postalCodeCount\" must be greater than 0")
  ELSE IF postalCodeCount.num > PostalCodeCountWarnAbove * postalCodeCount.den
  THEN [errors |-> <<>>,
        warnings |-> <<FieldError("postalCodeCount",
                         "Field \"postalCodeCount\" seems unusually high (>10M)")>>]
  ELSE [errors |-> <<>>, warnings |-> <<>>]

validStatuses == {"active", "inactive", "coming-soon"}

\* the status chain of validateDatasetDetailed
validateStatus(status) ==
  LET Err(m) == <<FieldError("status", m)>>
  IN
  IF status.type \in {"undefined", "null"}
  THEN Err("Required field \"status\" is missing")
  ELSE IF typeof(status) # "string"
  THEN Err("Field \"status\" must be a string")
  ELSE IF status.str \notin validStatuses
  THEN Err("Field \"status\" must be one of: active, inactive, coming-soon")
  ELSE <<>>

\* the result of the first rule that fails, and nothing after it
validateDatasetDetailed_ShortCircuit(dataset, path) ==
  IF ~Truthy(dataset) \/ typeof(dataset) # "object"
  THEN [isValid |-> FALSE,
        errors |-> <<FieldError(path, "Dataset must be a non-null object")>>,
        warnings |-> <<>>]
  ELSE
    LET strings == [i \in 1..Len(fieldValidations) |->
                      validateStringField(fieldValidations[i],
                                          Get(dataset, fieldValidations[i].field))]
        count == validatePostalCodeCount(Get(dataset, "postalCodeCount"))
        all == Flatten([i \in 1..Len(strings) |-> strings[i].errors])
                 \o count.errors \o validateStatus(Get(dataset, "status"))
    IN ValidationResult(IF Len(all) = 0 THEN <<>> ELSE <<Head(all)>>,
                        Flatten([i \in 1..Len(strings) |-> strings[i].warnings])
                          \o count.warnings)

validateDatasetDetailed(dataset, path) ==
  IF ~Truthy(dataset) \/ typeof(dataset) # "object"
  THEN [isValid |-> FALSE,
        errors |-> <<FieldError(path, "Dataset must be a non-null object")>>,
        warnings |-> <<>>]
  ELSE
    LET strings == [i \in 1..Len(fieldValidations) |->
                      validateStringField(fieldValidations[i],
                                          Get(dataset, fieldValidations[i].field))]
        count == validatePostalCodeCount(Get(dataset, "postalCodeCount"))
    IN ValidationResult(
         Flatten([i \in 1..Len(strings) |-> strings[i].errors])
           \o count.errors \o validateStatus(Get(dataset, "status")),
         Flatten([i \in 1..Len(strings) |-> strings[i].warnings])
           \o count.warnings)

\* ------------------------------------------------------- records tried
MaxChanged == 2        \* fields of the sample record replaced at once

RecordFields ==
  {"id", "countryName", "countryCode", "region", "sampleFileName",
   "postalCodeCount", "status"}

\* the record of getFallbackDatasets, which passes every rule
SampleRecord ==
  [ id |-> Str("us"),
    countryName |-> Str("United States"),
    countryCode |-> Str("US"),
    postalCodeCount |-> Num(41692),
    region |-> Str("North America"),
    status |-> Str("active"),
    sampleFileName |-> Str("us-postal-codes-sample.csv") ]

\* what a field is replaced with: missing, of the wrong type, blank, too
\* short, too long, against the pattern, and other values that pass
FieldValues ==
  [ id |-> {Undefined, Null, Num(7), Str("  "), Str("Us"), Str("gb-2")},
    countryName |-> {Undefined, Num(1), Str("A"), Str(Repeat("a", 101))},
    countryCode |-> {Undefined, Str("us"), Str("USA"), Str("U1")},
    region |-> {Null, Str(""), Str("E"), Str(Repeat("e", 51))},
    sampleFileName |-> {Undefined, Str("us.txt"), Str("uscsv"), Str(".csv")},
    postalCodeCount |-> {Undefined, Null, Str("5"), Ratio(1, 2), NaN, Num(-1),
                         Num(0), Num(1), Num(10000000), Num(10000001)},
    status |-> {Undefined, Num(1), Str("ready"), Str("Active"),
                Str("inactive"), Str("coming-soon")} ]

\* r with at most k of the fields fs replaced
RECURSIVE Vary(_, _, _)
Vary(r, fs, k) ==
  IF k = 0 \/ fs = {} THEN {r}
  ELSE LET f == CHOOSE g \in fs : TRUE
       IN Vary(r, fs \ {f}, k)
            \cup UNION {Vary([r EXCEPT ![f] = v], fs \ {f}, k - 1) : v \in FieldValues[f]}

\* the values validateDatasetDetailed is applied to
RawRecords ==
  {Obj(r) : r \in Vary(SampleRecord, RecordFields, MaxChanged)}
    \cup {Undefined, Null, Num(0), Str("us"), Bool(FALSE), Arr(<<>>)}

\* the hook's variables while only the DataLoader runs
HookAtRest ==
  /\ opts = CHOOSE o \in Options : ~o.autoLoad /\ o.maxRetries = 0
  /\ now = 0
  /\ dataCache = None
  /\ phase = "rendered"
  /\ data = None
  /\ loading = FALSE
  /\ error = None
  /\ retryCount = 0
  /\ isMountedRef = TRUE
  /\ calls = EmptyBag
  /\ timers = EmptyBag
  /\ last = <<"render">>

InitValidator ==
  /\ HookAtRest
  /\ input \in RawRecords
  /\ pc = "idle"
  /\ output = None
  /\ PageAtRest

\* DataLoader.validateDatasetDetailed(input)
ValidateDatasetDetailed ==
  /\ pc = "idle"
  /\ pc' = "done"
  /\ output' = Some([fn |-> "validateDatasetDetailed",
                     result |-> validateDatasetDetailed(input, "dataset")])
  /\ UNCHANGED <<hookVars, pageVars, input>>

\* DataLoader.validateDataset(input), the legacy wrapper
ValidateDataset ==
  /\ pc = "idle"
  /\ pc' = "done"
  /\ output' = Some([fn |-> "validateDataset",
                     result |-> validateDatasetDetailed(input, "dataset").isValid])
  /\ UNCHANGED <<hookVars, pageVars, input>>

NextValidator ==
  \/ ValidateDatasetDetailed
  \/ ValidateDataset

SpecValidator == InitValidator /\ [][NextValidator]_vars

\* ------------------------------------------------------- collection validator
\* `${n}` for the numbers the documents tried hold
NumberText(v) ==
  CASE v.den = 1 -> ToString(v.num)
    [] v.den = 0 -> "NaN"

\* the checks of validateDatasetCollectionDetailed on the datasets property
validateDatasetsProperty(doc) ==
  LET datasets == Get(doc, "datasets")
      E(message) == [errors |-> <<FieldError("datasets", message)>>, warnings |-> <<>>]
  IN IF ~hasOwnProperty(doc, "datasets")
     THEN E("Missing required property \"datasets\"")
     ELSE IF ~isArray(datasets)
     THEN E("Property \"datasets\" must be an array")
     ELSE IF Len(datasets.items) = 0
     THEN [errors |-> <<>>,
           warnings |-> <<FieldError("datasets", "Datasets array is empty")>>]
     ELSE [errors |-> <<>>, warnings |-> <<>>]

validateDatasetCollectionDetailed(doc) ==
  IF ~Truthy(doc) \/ typeof(doc) # "object"
  THEN [isValid |-> FALSE,
        errors |-> <<FieldError("root", "Data must be a non-null object")>>,
        warnings |-> <<>>]
  ELSE
    LET datasets == Get(doc, "datasets")
        metadata == Get(doc, "metadata")
        E(field, message) == [errors |-> <<FieldError(field, message)>>, warnings |-> <<>>]
        W(field, message) == [errors |-> <<>>, warnings |-> <<FieldError(field, message)>>]
        Ok == [errors |-> <<>>, warnings |-> <<>>]
        lastUpdated == Get(metadata, "lastUpdated")
        lastUpdatedPart ==
          IF typeof(lastUpdated) # "string"
          THEN E("metadata.lastUpdated", "lastUpdated must be a string")
          ELSE IF ~Test("^\\d{4}-\\d{2}-\\d{2}$", lastUpdated.str)
          THEN W("metadata.lastUpdated", "lastUpdated should be in YYYY-MM-DD format")
          ELSE Ok
        version == Get(metadata, "version")
        versionPart ==
          IF typeof(version) # "string"
          THEN E("metadata.version", "version must be a string")
          ELSE IF ~Test("^\\d+\\.\\d+\\.\\d+$", version.str)
          THEN W("metadata.version", "version should follow semantic versioning (x.y.z)")
          ELSE Ok
        totalCountries == Get(metadata, "totalCountries")
        totalCountriesPart ==
          IF typeof(totalCountries) # "number"
          THEN E("metadata.totalCountries", "totalCountries must be a number")
          ELSE IF totalCountries.den # 0 /\ totalCountries.num < 0
          THEN E("metadata.totalCountries", "totalCountries must be non-negative")
          ELSE IF /\ isArray(datasets)
                  /\ \/ totalCountries.den = 0
                     \/ totalCountries.num # Len(datasets.items) * totalCountries.den
          THEN W("metadata.totalCountries",
                 "totalCountries (" \o NumberText(totalCountries)
                   \o ") does not match actual datasets length ("
                   \o ToString(Len(datasets.items)) \o ")")
          ELSE Ok
        metadataParts ==
          IF ~hasOwnProperty(doc, "metadata")
          THEN <<E("metadata", "Missing required property \"metadata\"")>>
          ELSE IF ~Truthy(metadata) \/ typeof(metadata) # "object"
          THEN <<E("metadata", "Metadata must be an object")>>
          ELSE <<lastUpdatedPart, versionPart, totalCountriesPart>>
        parts == <<validateDatasetsProperty(doc)>> \o metadataParts
    IN ValidationResult(Flatten([i \in 1..Len(parts) |-> parts[i].errors]),
                        Flatten([i \in 1..Len(parts) |-> parts[i].warnings]))

\* ------------------------------------------------------- filter, schema
\* filterValidDatasets giving up the whole collection for one invalid record
filterValidDatasets_AllOrNothing(datasets) ==
  LET validation(i) == validateDatasetDetailed(datasets[i], "dataset")
  IN IF \A i \in 1..Len(datasets) : validation(i).isValid
     THEN [valid |-> datasets, invalid |-> <<>>, totalProcessed |-> Len(datasets)]
     ELSE [valid |-> <<>>,
           invalid |-> [i \in 1..Len(datasets) |->
                          [dataset |-> datasets[i], errors |-> validation(i).errors]],
           totalProcessed |-> Len(datasets)]

\* the loop of filterValidDatasets from index i on
RECURSIVE filterLoop(_, _, _, _)
filterLoop(datasets, i, valid, invalid) ==
  IF i >= Len(datasets)
  THEN [valid |-> valid, invalid |-> invalid, totalProcessed |-> Len(datasets)]
  ELSE LET dataset == datasets[i + 1]
           validation == validateDatasetDetailed(dataset, "dataset[" \o ToString(i) \o "]")
       IN IF validation.isValid
          THEN filterLoop(datasets, i + 1, Append(valid, dataset), invalid)
          ELSE filterLoop(datasets, i + 1, valid,
                          Append(invalid, [dataset |-> dataset, errors |-> validation.errors]))

filterValidDatasets(datasets) == filterLoop(datasets, 0, <<>>, <<>>)

\* validateJsonSchema without its two Sets
validateJsonSchema_NoDuplicateCheck(doc) ==
  LET collectionValidation == validateDatasetCollectionDetailed(doc)
  IN IF collectionValidation.isValid /\ isArray(Get(doc, "datasets"))
     THEN LET items == Get(doc, "datasets").items
              each == [i \in 1..Len(items) |->
                         validateDatasetDetailed(items[i], "datasets[" \o ToString(i - 1) \o "]")]
          IN ValidationResult(
               collectionValidation.errors \o Flatten([i \in 1..Len(items) |-> each[i].errors]),
               collectionValidation.warnings \o Flatten([i \in 1..Len(items) |-> each[i].warnings]))
     ELSE collectionValidation

\* the loop of validateJsonSchema from index i on
RECURSIVE schemaLoop(_, _, _, _, _, _)
schemaLoop(datasets, i, errors, warnings, datasetIds, countryCodes) ==
  IF i >= Len(datasets)
  THEN ValidationResult(errors, warnings)
  ELSE
    LET dataset == datasets[i + 1]
        datasetValidation ==
          validateDatasetDetailed(dataset, "datasets[" \o ToString(i) \o "]")
        id == Get(dataset, "id")
        countryCode == Get(dataset, "countryCode")
        checkId == datasetValidation.isValid /\ Truthy(id)
        checkCode == datasetValidation.isValid /\ Truthy(countryCode)
        duplicateId == checkId /\ id \in datasetIds
        duplicateCode == checkCode /\ countryCode \in countryCodes
    IN schemaLoop(
         datasets, i + 1,
         errors \o datasetValidation.errors
           \o (IF duplicateId
               THEN <<FieldError("id", "Duplicate dataset ID " \o Quoted(id.str) \o " found")>>
               ELSE <<>>),
         warnings \o datasetValidation.warnings
           \o (IF duplicateCode
               THEN <<FieldError("countryCode",
                        "Duplicate country code " \o Quoted(countryCode.str) \o " found")>>
               ELSE <<>>),
         IF checkId /\ ~duplicateId THEN datasetIds \cup {id} ELSE datasetIds,
         IF checkCode /\ ~duplicateCode THEN countryCodes \cup {countryCode} ELSE countryCodes)

validateJsonSchema(doc) ==
  LET collectionValidation == validateDatasetCollectionDetailed(doc)
  IN IF collectionValidation.isValid /\ isArray(Get(doc, "datasets"))
     THEN schemaLoop(Get(doc, "datasets").items, 0,
                     collectionValidation.errors, collectionValidation.warnings, {}, {})
     ELSE collectionValidation

\* ------------------------------------------------------- loadDatasets
\* what a call gives: the sequence it returns or the error it throws, with
\* the filterResult it computed on the way (None: filterValidDatasets was
\* not called)
Returned(value, filterResult) ==
  [kind |-> "returned", value |-> value, filterResult |-> filterResult]

Raised(err, filterResult) ==
  [kind |-> "raised", error |-> err, filterResult |-> filterResult]

\* new Error(message); anything else thrown is not an Error
ErrorObject(message) == [type |-> "error", message |-> message]

\* the try block returning whatever the filter keeps, an empty list too
loadDatasetsTry_ReturnsEmpty(doc) ==
  LET collectionValidation == validateDatasetCollectionDetailed(doc)
  IN IF ~collectionValidation.isValid
     THEN Raised(EnvelopeValidationError, None)
     ELSE LET filterResult == filterValidDatasets(Get(doc, "datasets").items)
          IN Returned(filterResult.valid, Some(filterResult))

\* the try block filtering the records before it looks at the envelope
loadDatasetsTry_FilterFirst(doc) ==
  LET collectionValidation == validateDatasetCollectionDetailed(doc)
      filterResult ==
        IF Truthy(doc) /\ isArray(Get(doc, "datasets"))
        THEN Some(filterValidDatasets(Get(doc, "datasets").items))
        ELSE None
  IN IF ~collectionValidation.isValid
     THEN Raised(EnvelopeValidationError, filterResult)
     ELSE IF Len(Val(filterResult).valid) = 0
     THEN Raised(NoValidDatasetsError, filterResult)
     ELSE Returned(Val(filterResult).valid, filterResult)

\* the try block of loadDatasets after the import, doc being dataModule.default
loadDatasetsTry(doc) ==
  LET collectionValidation == validateDatasetCollectionDetailed(doc)
  IN IF ~collectionValidation.isValid
     THEN Raised(EnvelopeValidationError, None)
     ELSE LET filterResult == filterValidDatasets(Get(doc, "datasets").items)
          IN IF Len(filterResult.valid) = 0
             THEN Raised(NoValidDatasetsError, Some(filterResult))
             ELSE Returned(filterResult.valid, Some(filterResult))

\* the catch block of loadDatasets for what the import threw
loadDatasetsCatch(thrown) ==
  LET errorMessage == toLowerCase(thrown.message)
      classified ==
        IF thrown.type # "error"
        THEN <<"UNKNOWN_ERROR", TRUE>>
        ELSE IF includes(errorMessage, "timeout") \/ includes(errorMessage, "import timeout")
        THEN <<"TIMEOUT_ERROR", TRUE>>
        ELSE IF includes(errorMessage, "network") \/ includes(errorMessage, "fetch")
        THEN <<"NETWORK_ERROR", TRUE>>
        ELSE IF includes(errorMessage, "parse") \/ includes(errorMessage, "json")
        THEN <<"PARSE_ERROR", FALSE>>
        ELSE IF includes(errorMessage, "not found") \/ includes(errorMessage, "404")
        THEN <<"FILE_NOT_FOUND", FALSE>>
        ELSE IF includes(errorMessage, "permission") \/ includes(errorMessage, "403")
        THEN <<"PERMISSION_ERROR", FALSE>>
        ELSE <<"UNKNOWN_ERROR", TRUE>>
  IN DataLoaderError(ERROR_MESSAGES[classified[1]], classified[1], classified[2])

\* a || b
Or(a, b) == IF Truthy(a) THEN a ELSE b

\* the object the simple loadDatasets maps an item to; the documents tried
\* have no snake_case keys and no totalPostalCodes, so parseInt reads '0'
simpleMapItem(item) ==
  Obj([ id |-> Get(item, "id"),
        countryName |-> Or(Get(item, "countryName"), Str("-")),
        countryCode |-> Or(Get(item, "countryCode"), Str("")),
        postalCodeCount |-> Num(0),
        region |-> Or(Get(item, "region"), Str("Unknown")),
        status |-> Or(Get(item, "status"), Str("ready")),
        sampleFileName |-> Or(Get(item, "sampleFileName"), Str("")) ])

\* reading a property of v throws a TypeError
ThrowsOnRead(v) == v.type \in {"undefined", "null"}

\* the simple loadDatasets after the import, doc being dataModule.default
simpleLoadDatasetsTry(doc) ==
  IF \/ ThrowsOnRead(doc)
     \/ ~isArray(Get(doc, "datasets"))
     \/ \E i \in 1..Len(Get(doc, "datasets").items) :
          ThrowsOnRead(Get(doc, "datasets").items[i])
  THEN Raised(ErrorObject("Failed to load datasets"), None)
  ELSE LET items == Get(doc, "datasets").items
       IN Returned([i \in 1..Len(items) |-> simpleMapItem(items[i])], None)

\* ------------------------------------------------------- documents tried
MaxRecords == 2        \* records in a collection

CanadaRecord ==
  [ id |-> Str("ca"),
    countryName |-> Str("Canada"),
    countryCode |-> Str("CA"),
    postalCodeCount |-> Num(876445),
    region |-> Str("North America"),
    status |-> Str("inactive"),
    sampleFileName |-> Str("ca-postal-codes-sample.csv") ]

\* two valid records with distinct ids and codes, a valid one with the id
\* "us" again, a valid one with the code "US" again, an invalid object with
\* the id "us", and a null entry
CollectionRecords ==
  { Obj(SampleRecord),
    Obj(CanadaRecord),
    Obj([SampleRecord EXCEPT !.countryName = Str("United States Minor Outlying Islands"),
                             !.countryCode = Str("UM")]),
    Obj([SampleRecord EXCEPT !.id = Str("pr"), !.countryName = Str("Puerto Rico")]),
    Obj([SampleRecord EXCEPT !.postalCodeCount = Num(0), !.status = Str("ready")]),
    Null }

RECURSIVE SeqsUpTo(_, _)
SeqsUpTo(S, n) ==
  IF n = 0 THEN {<<>>}
  ELSE LET shorter == SeqsUpTo(S, n - 1)
       IN shorter \cup {Append(q, x) : q \in {r \in shorter : Len(r) = n - 1}, x \in S}

Metadatas ==
  { Obj([lastUpdated |-> lu, version |-> v, totalCountries |-> tc]) :
      lu \in {Undefined, Str("2024-01-15"), Str("15/01/2024")},
      v \in {Num(1), Str("1.0.0"), Str("v1")},
      tc \in {Str("2")} \cup {Num(n) : n \in -1..MaxRecords} }
    \cup {Undefined, Null, Str("none")}

\* what data.json can hold
Documents ==
  { Obj([datasets |-> ds, metadata |-> md]) :
      ds \in {Undefined, Str("none")}
               \cup {Arr(q) : q \in SeqsUpTo(CollectionRecords, MaxRecords)},
      md \in Metadatas }
    \cup {Null, Str("none")}

\* what import('./data.json') rejects with
ImportFailures ==
  { ErrorObject("Failed to fetch dynamically imported module"),
    ErrorObject("NetworkError when attempting to fetch resource"),
    ErrorObject("Unexpected token < in JSON at position 0"),
    ErrorObject("Failed to parse module"),
    ErrorObject("404 Not Found"),
    ErrorObject("Permission denied"),
    ErrorObject("403 Forbidden"),
    ErrorObject("Request Timeout"),
    ErrorObject("Failed to fetch: 404 Not Found"),
    ErrorObject("Out of memory"),
    Str("timeout") }

\* the import a call will meet: it resolves with a module, it rejects, or it
\* is still pending when the timer of the race fires
Imports ==
  {[import |-> "resolves", default |-> d] : d \in Documents}
    \cup {[import |-> "rejects", reason |-> e] : e \in ImportFailures}
    \cup {[import |-> "pending"]}

InitLoader ==
  /\ HookAtRest
  /\ input \in Imports
  /\ pc = "idle"
  /\ output = None
  /\ PageAtRest

Finish(fn, result) ==
  /\ pc' = "done"
  /\ output' = Some([fn |-> fn, result |-> result])
  /\ UNCHANGED <<hookVars, pageVars, input>>

\* DataLoader.loadDatasets() up to its await
LoadDatasets ==
  /\ pc = "idle"
  /\ pc' = "loadDatasets"
  /\ UNCHANGED <<hookVars, pageVars, input, output>>

\* the import wins the race and resolves
ImportResolved ==
  /\ pc = "loadDatasets"
  /\ input.import = "resolves"
  /\ Finish("loadDatasets", loadDatasetsTry(input.default))

\* the import wins the race and rejects
ImportRejected ==
  /\ pc = "loadDatasets"
  /\ input.import = "rejects"
  /\ Finish("loadDatasets", Raised(loadDatasetsCatch(input.reason), None))

\* the timer wins the race: reject(new Error('Import timeout'))
ImportTimeout ==
  /\ pc = "loadDatasets"
  /\ input.import = "pending"
  /\ Finish("loadDatasets", Raised(loadDatasetsCatch(ErrorObject("Import timeout")), None))

\* the simple DataLoader.loadDatasets() up to its await
SimpleLoadDatasets ==
  /\ pc = "idle"
  /\ pc' = "simpleLoadDatasets"
  /\ UNCHANGED <<hookVars, pageVars, input, output>>

SimpleImportResolved ==
  /\ pc = "simpleLoadDatasets"
  /\ input.import = "resolves"
  /\ Finish("simpleLoadDatasets", simpleLoadDatasetsTry(input.default))

SimpleImportRejected ==
  /\ pc = "simpleLoadDatasets"
  /\ input.import = "rejects"
  /\ Finish("simpleLoadDatasets", Raised(ErrorObject("Failed to load datasets"), None))

\* DataLoader.validateDatasetCollectionDetailed(data)
ValidateDatasetCollectionDetailed ==
  /\ pc = "idle"
  /\ input.import = "resolves"
  /\ Finish("validateDatasetCollectionDetailed",
            validateDatasetCollectionDetailed(input.default))

\* DataLoader.validateJsonSchema(data)
ValidateJsonSchema ==
  /\ pc = "idle"
  /\ input.import = "resolves"
  /\ Finish("validateJsonSchema", validateJsonSchema(input.default))

\* DataLoader.filterValidDatasets(data.datasets)
FilterValidDatasets ==
  /\ pc = "idle"
  /\ input.import = "resolves"
  /\ Truthy(input.default)
  /\ isArray(Get(input.default, "datasets"))
  /\ Finish("filterValidDatasets",
            filterValidDatasets(Get(input.default, "datasets").items))

NextLoader ==
  \/ LoadDatasets
  \/ ImportResolved
  \/ ImportRejected
  \/ ImportTimeout
  \/ SimpleLoadDatasets
  \/ SimpleImportResolved
  \/ SimpleImportRejected
  \/ ValidateDatasetCollectionDetailed
  \/ ValidateJsonSchema
  \/ FilterValidDatasets

SpecLoader == InitLoader /\ [][NextLoader]_vars

\* ------------------------------------------------------- asset files
ASSETS_BASE_PATH == "public/assets/samples"

FileCheckTimeout == 5000

\* what a synchronous call gives
Value(v) == [kind |-> "returned", value |-> v]
Throws(err) == [kind |-> "raised", error |-> err]

\* `${v}` for a string, an integer, undefined or null
TemplateText(v) ==
  CASE v.type = "string" -> v.str
    [] v.type = "number" /\ v.den = 1 -> ToString(v.num)
    [] v = Undefined -> "undefined"
    [] v = Null -> "null"

\* getAssetPath; a DataLoaderError without a code is recoverable by default,
\* and a truthy filename without endsWith is a TypeError
getAssetPath(filename) ==
  IF ~Truthy(filename)
  THEN Throws(DataLoaderError("Filename is required for asset path generation",
                              Undefined, TRUE))
  ELSE IF filename.type # "string"
  THEN Throws(ErrorObject("filename.endsWith is not a function"))
  ELSE IF ~endsWith(filename.str, ".csv")
  THEN Throws(DataLoaderError("Asset filename must end with .csv", Undefined, TRUE))
  ELSE Value(ASSETS_BASE_PATH \o "/" \o filename.str)

\* the simple getAssetPath
simpleGetAssetPath(filename) ==
  Value(ASSETS_BASE_PATH \o "/" \o TemplateText(filename))

\* response.ok
ResponseOk(status) == 200 <= status /\ status <= 299

\* what fetch(assetPath, { method: 'HEAD' }) will do: resolve with a response
\* of some status after some milliseconds, reject after some, or never settle
Fetches ==
  {[settles |-> "response", status |-> s, after |-> t] :
     s \in {200, 204, 299, 304, 404, 500}, t \in {100, FileCheckTimeout, 6000}}
    \cup {[settles |-> "error", after |-> t] : t \in {100, FileCheckTimeout, 6000}}
    \cup {[settles |-> "never"]}

Filenames ==
  {Undefined, Null, Str(""), Num(0), Num(42),
   Str("us-postal-codes-sample.csv"), Str(".csv"), Str("us.txt")}

InitAssets ==
  /\ HookAtRest
  /\ input \in [filename : Filenames, fetch : Fetches]
  /\ pc = "idle"
  /\ output = None
  /\ PageAtRest

\* checkFileExists(input.filename) up to its await
CheckFileExists ==
  /\ pc = "idle"
  /\ IF ~Truthy(input.filename) \/ typeof(input.filename) # "string"
     THEN Finish("checkFileExists", Value(FALSE))
     ELSE IF getAssetPath(input.filename).kind = "raised"
     THEN Finish("checkFileExists", Value(FALSE))
     ELSE /\ pc' = "checkFileExists"
          /\ UNCHANGED <<hookVars, pageVars, input, output>>

\* the fetch wins the race: return response.ok, or false from the catch block
ProbeSettled ==
  /\ pc = "checkFileExists"
  /\ input.fetch.settles # "never"
  /\ input.fetch.after <= FileCheckTimeout
  /\ Finish("checkFileExists",
            Value(IF input.fetch.settles = "response"
                  THEN ResponseOk(input.fetch.status)
                  ELSE FALSE))

\* the timer wins the race: reject(new Error('File check timeout'))
ProbeTimeout ==
  /\ pc = "checkFileExists"
  /\ IF input.fetch.settles = "never" THEN TRUE
     ELSE input.fetch.after >= FileCheckTimeout
  /\ Finish("checkFileExists", Value(FALSE))

\* the simple checkFileExists(input.filename) up to its await
SimpleCheckFileExists ==
  /\ pc = "idle"
  /\ IF ~Truthy(input.filename)
     THEN Finish("simpleCheckFileExists", Value(FALSE))
     ELSE /\ simpleGetAssetPath(input.filename).kind = "returned"
          /\ pc' = "simpleCheckFileExists"
          /\ UNCHANGED <<hookVars, pageVars, input, output>>

\* the fetch settles, whenever that is
SimpleProbeSettled ==
  /\ pc = "simpleCheckFileExists"
  /\ input.fetch.settles # "never"
  /\ Finish("simpleCheckFileExists",
            Value(IF input.fetch.settles = "response"
                  THEN ResponseOk(input.fetch.status)
                  ELSE FALSE))

NextAssets ==
  \/ CheckFileExists
  \/ ProbeSettled
  \/ ProbeTimeout
  \/ SimpleCheckFileExists
  \/ SimpleProbeSettled

SpecAssets == InitAssets /\ [][NextAssets]_vars

\* ------------------------------------------------------- downloads
MaxDownloadRetries == 2

\* error instanceof DataLoaderError
IsDataLoaderError(e) == "code" \in DOMAIN e

\* a backoff that does not grow
backoffDelay_Flat(attempt) == 1000

\* Math.pow(2, attempt - 1) * 1000
backoffDelay(attempt) == Pow2(attempt - 1) * 1000

\* the switch on response.status
statusErrorCode(status) ==
  CASE status = 404 -> "FILE_NOT_FOUND"
    [] status = 403 -> "PERMISSION_ERROR"
    [] status \in {408, 504} -> "TIMEOUT_ERROR"
    [] status \in {500, 502, 503} -> "NETWORK_ERROR"
    [] OTHER -> "UNKNOWN_ERROR"

\* the DataLoaderError built for a response that is not ok
statusError(status) ==
  DataLoaderError(ERROR_MESSAGES[statusErrorCode(status)], statusErrorCode(status),
                  status \notin {404, 403})

\* the code the catch block gives an error that is no DataLoaderError
rejectionErrorCode(e) ==
  IF \/ includes(toLowerCase(e.message), "abort")
     \/ includes(toLowerCase(e.message), "timeout")
  THEN "TIMEOUT_ERROR"
  ELSE "NETWORK_ERROR"

InvalidFilenameError ==
  DataLoaderError("Invalid filename provided for download", "VALIDATION_ERROR", FALSE)

EmptyFileError ==
  DataLoaderError("Downloaded file is empty", "VALIDATION_ERROR", TRUE)

UnknownDownloadError ==
  DataLoaderError(ERROR_MESSAGES.UNKNOWN_ERROR, "UNKNOWN_ERROR", TRUE)

Blob(size) == [type |-> "blob", size |-> size]

\* what fetch(assetPath, ...) can resolve with
Responses ==
  {[status |-> 200, statusText |-> "OK", size |-> n] : n \in {0, 2048}}
    \cup {[status |-> 204, statusText |-> "No Content", size |-> 0],
          [status |-> 304, statusText |-> "Not Modified", size |-> 0],
          [status |-> 403, statusText |-> "Forbidden", size |-> 0],
          [status |-> 404, statusText |-> "Not Found", size |-> 0],
          [status |-> 408, statusText |-> "Request Timeout", size |-> 0],
          [status |-> 500, statusText |-> "Internal Server Error", size |-> 0]}

\* what it can reject with: a network failure, or the abort of the 30 s timer
Rejections ==
  {ErrorObject("Failed to fetch"), ErrorObject("The operation was aborted.")}

InitDownload ==
  /\ HookAtRest
  /\ input \in [filename : Filenames, maxRetries : (-1)..MaxDownloadRetries]
  /\ pc = "idle"
  /\ output = None
  /\ locals = None
  /\ sampleFiles = None
  /\ center = None

\* the call ends: `site` tells which return or throw statement ended it
Leave(fn, result, frame, site) ==
  /\ pc' = "done"
  /\ output' = Some([fn |-> fn, result |-> result])
  /\ locals' = Some([frame EXCEPT !.site = site])
  /\ UNCHANGED <<hookVars, input, sampleFiles, center>>

\* await new Promise(resolve => setTimeout(resolve, backoffDelay(attempt)))
Backoff(err, frame) ==
  /\ pc' = "backoff"
  /\ locals' = Some([frame EXCEPT !.lastError = err,
                                  !.waits = Append(@, backoffDelay(frame.attempt))])
  /\ UNCHANGED <<hookVars, input, output, sampleFiles, center>>

\* the catch block
Caught(thrown, frame) ==
  IF IsDataLoaderError(thrown)
  THEN IF ~thrown.recoverable \/ frame.attempt > input.maxRetries
       THEN Leave("downloadSampleFile", Throws(thrown),
                  [frame EXCEPT !.lastError = thrown], "loop")
       ELSE Backoff(thrown, frame)
  ELSE IF frame.attempt > input.maxRetries
       THEN Leave("downloadSampleFile",
                  Throws(DataLoaderError(ERROR_MESSAGES[rejectionErrorCode(thrown)],
                                         rejectionErrorCode(thrown), TRUE)),
                  [frame EXCEPT !.lastError = thrown], "loop")
       ELSE Backoff(thrown, frame)

\* the loop condition, and an attempt up to its await of fetch
Attempt(frame) ==
  IF ~(frame.attempt <= input.maxRetries + 1)
  THEN Leave("downloadSampleFile", Throws(UnknownDownloadError), frame, "end")
  ELSE IF getAssetPath(input.filename).kind = "raised"
  THEN Caught(getAssetPath(input.filename).error, frame)
  ELSE /\ pc' = "fetch"
       /\ locals' = Some([frame EXCEPT !.fetches = @ + 1])
       /\ UNCHANGED <<hookVars, input, output, sampleFiles, center>>

\* the locals at the head of the loop; fetches, waits, met and site are an
\* observer's: the fetches issued, the delays waited, the response or
\* rejection last met, the statement that ended the call
FirstFrame ==
  [attempt |-> 1, lastError |-> Null, fetches |-> 0, waits |-> <<>>,
   met |-> None, site |-> "running"]

\* downloadSampleFile(input.filename, input.maxRetries) up to its first await
DownloadSampleFile ==
  /\ pc = "idle"
  /\ IF ~Truthy(input.filename) \/ typeof(input.filename) # "string"
     THEN Leave("downloadSampleFile", Throws(InvalidFilenameError), FirstFrame, "guard")
     ELSE Attempt(FirstFrame)

\* fetch resolves with response r
FetchResolved ==
  /\ pc = "fetch"
  /\ \E r \in Responses :
       LET frame == [Val(locals) EXCEPT !.met = Some(r)]
       IN IF ~ResponseOk(r.status)
          THEN IF ~statusError(r.status).recoverable \/ frame.attempt > input.maxRetries
               THEN Caught(statusError(r.status), frame)
               ELSE Backoff(statusError(r.status), frame)
          ELSE IF r.size = 0
          THEN Caught(EmptyFileError, frame)
          ELSE Leave("downloadSampleFile", Value(Blob(r.size)), frame, "loop")

\* fetch rejects
FetchRejected ==
  /\ pc = "fetch"
  /\ \E e \in Rejections :
       Caught(e, [Val(locals) EXCEPT !.met = Some(e)])

\* the backoff timer fires: attempt++
BackoffElapsed ==
  /\ pc = "backoff"
  /\ Attempt([Val(locals) EXCEPT !.attempt = @ + 1])

\* the simple downloadSampleFile(input.filename) up to its await
SimpleDownloadSampleFile ==
  /\ pc = "idle"
  /\ simpleGetAssetPath(input.filename).kind = "returned"
  /\ pc' = "simpleFetch"
  /\ UNCHANGED <<hookVars, pageVars, input, output>>

\* its fetch resolves with response r
SimpleFetchResolved ==
  /\ pc = "simpleFetch"
  /\ \E r \in Responses :
       Leave("simpleDownloadSampleFile",
             IF ~ResponseOk(r.status)
             THEN Throws(ErrorObject("Failed to download file: " \o r.statusText))
             ELSE Value(Blob(r.size)),
             [met |-> Some(r), site |-> "running"], "simple")

\* its fetch rejects
SimpleFetchRejected ==
  /\ pc = "simpleFetch"
  /\ \E e \in Rejections :
       Leave("simpleDownloadSampleFile", Throws(e),
             [met |-> Some(e), site |-> "running"], "simple")

\* getAssetPath(input.filename)
GetAssetPath ==
  /\ pc = "idle"
  /\ Finish("getAssetPath", getAssetPath(input.filename))

\* the simple getAssetPath(input.filename)
SimpleGetAssetPath ==
  /\ pc = "idle"
  /\ Finish("simpleGetAssetPath", simpleGetAssetPath(input.filename))

NextDownload ==
  \/ DownloadSampleFile
  \/ FetchResolved
  \/ FetchRejected
  \/ BackoffElapsed
  \/ SimpleDownloadSampleFile
  \/ SimpleFetchResolved
  \/ SimpleFetchRejected
  \/ GetAssetPath
  \/ SimpleGetAssetPath

SpecDownload == InitDownload /\ [][NextDownload]_vars

\* ------------------------------------------------------- useSampleFileStatus
MaxFiles == 2
MaxBatches == 2

SampleFileNames == {"us-postal-codes-sample.csv", "fr-postal-codes-sample.csv"}

\* the datasets the hook is given, as the sampleFileName of each record:
\* null, or an array
Collections == {Null} \cup {Arr(c) : c \in SeqsUpTo(SampleFileNames, MaxFiles)}

\* new Map()
EmptyMap == [f \in {} |-> TRUE]

\* new Map(m).set(key, value)
MapSet(m, key, value) ==
  [f \in DOMAIN m \cup {key} |-> IF f = key THEN value ELSE m[f]]

\* s without its i-th element
Without(s, i) == SubSeq(s, 1, i - 1) \o SubSeq(s, i + 1, Len(s))

\* the loader's variables while only the page runs
LoaderAtRest ==
  /\ input = None
  /\ pc = "idle"
  /\ output = None
  /\ locals = None

\* the hook mounted with datasets = null, its effects run; settled and manual
\* are an observer's: the statusMap of the checkAllFiles call the last run of
\* the datasets effect started, once all its probes settled, and whether
\* checkFile was ever called
InitSampleFiles ==
  /\ HookAtRest
  /\ LoaderAtRest
  /\ sampleFiles = Some([datasets |-> Null, fileStatus |-> EmptyMap,
                         loading |-> FALSE, isMountedRef |-> TRUE,
                         batches |-> <<>>, checks |-> <<>>, settled |-> None,
                         manual |-> FALSE])
  /\ center = None

\* the probes under way
Outstanding(h) == Len(h.batches) + Len(h.checks)

UpdateSampleFiles(h) ==
  /\ sampleFiles' = Some(h)
  /\ UNCHANGED <<hookVars, loaderVars, locals, center>>

\* a render with datasets = c, another array than before, and the datasets
\* effect
RenderWith(c) ==
  /\ Val(sampleFiles).isMountedRef
  /\ LET h == [Val(sampleFiles) EXCEPT
                  !.datasets = c,
                  !.settled = None,
                  !.batches = [i \in DOMAIN @ |-> [@[i] EXCEPT !.current = FALSE]]]
     IN IF ~Truthy(c) \/ Len(c.items) = 0
        THEN UpdateSampleFiles([h EXCEPT !.fileStatus = EmptyMap])
        ELSE /\ Outstanding(h) < MaxBatches
             /\ UpdateSampleFiles(
                  [h EXCEPT !.loading = TRUE,
                            !.batches = Append(@, [datasets |-> c.items,
                                                   statusMap |-> EmptyMap,
                                                   pending |-> DOMAIN c.items,
                                                   current |-> TRUE])])

DatasetsEffect ==
  /\ sampleFiles # None
  /\ \E c \in Collections : RenderWith(c)

\* one checkFileExists of a checkAllFiles call settles; after the last one
\* Promise.all resolves and the call writes its statusMap
ProbeSettles ==
  /\ sampleFiles # None
  /\ \E b \in DOMAIN Val(sampleFiles).batches, exists \in BOOLEAN :
       LET h == Val(sampleFiles)
           batch == h.batches[b]
       IN \E i \in batch.pending :
            LET statusMap == MapSet(batch.statusMap, batch.datasets[i], exists)
            IN IF batch.pending # {i}
               THEN UpdateSampleFiles(
                      [h EXCEPT !.batches[b].statusMap = statusMap,
                                !.batches[b].pending = @ \ {i}])
               ELSE UpdateSampleFiles(
                      [h EXCEPT !.batches = Without(@, b),
                                !.settled = IF batch.current THEN Some(statusMap) ELSE @,
                                !.fileStatus = IF h.isMountedRef THEN statusMap ELSE @,
                                !.loading = IF h.isMountedRef THEN FALSE ELSE @])

\* checkFile(filename) up to its await
CheckFile ==
  /\ sampleFiles # None
  /\ Val(sampleFiles).isMountedRef
  /\ Outstanding(Val(sampleFiles)) < MaxBatches
  /\ \E filename \in SampleFileNames :
       UpdateSampleFiles([Val(sampleFiles) EXCEPT !.checks = Append(@, filename),
                                                 !.manual = TRUE])

\* its checkFileExists settles
CheckFileSettles ==
  /\ sampleFiles # None
  /\ \E k \in DOMAIN Val(sampleFiles).checks, exists \in BOOLEAN :
       LET h == Val(sampleFiles)
       IN UpdateSampleFiles(
            [h EXCEPT !.checks = Without(@, k),
                      !.fileStatus = IF h.isMountedRef
                                     THEN MapSet(@, h.checks[k], exists)
                                     ELSE @])

\* the cleanup effect
SampleFilesUnmount ==
  /\ sampleFiles # None
  /\ Val(sampleFiles).isMountedRef
  /\ UpdateSampleFiles([Val(sampleFiles) EXCEPT !.isMountedRef = FALSE])

NextSampleFiles ==
  \/ DatasetsEffect
  \/ ProbeSettles
  \/ CheckFile
  \/ CheckFileSettles
  \/ SampleFilesUnmount

SpecSampleFiles == InitSampleFiles /\ [][NextSampleFiles]_vars

\* ------------------------------------------------------- DatabaseCenter
\* the region of the record at each place of the datasets array
RegionOf == <<"Europe", "Asia", "Europe">>

\* what useDatasets gives the page: null, or the loaded records
LoadedDatasets ==
  {Null, Arr(<<"us-postal-codes-sample.csv", "fr-postal-codes-sample.csv">>)}

\* the datasets useDatasets gives: the record at place i has id i
DatasetsOf(c) ==
  IF ~Truthy(c) THEN <<>>
  ELSE [i \in DOMAIN c.items |->
          [id |-> i, region |-> RegionOf[i], sampleFileName |-> c.items[i]]]

\* the useMemo of filteredDatasets
filteredDatasets(c, selectedRegion) ==
  LET Shown(d) == selectedRegion = "all" \/ d.region = selectedRegion
  IN SelectSeq(DatasetsOf(c), Shown)

\* fileStatus.get(sampleFileName) !== false
Available(fileStatus, sampleFileName) ==
  ~(sampleFileName \in DOMAIN fileStatus /\ fileStatus[sampleFileName] = FALSE)

\* ds.find(d => d.id === id)
Find(ds, id) ==
  LET Is(d) == d.id = id
  IN IF SelectSeq(ds, Is) = <<>> THEN None ELSE Some(SelectSeq(ds, Is)[1])

\* what the page renders with
Hook == Val(sampleFiles)
Page == Val(center)
Rows == filteredDatasets(Hook.datasets, Page.selectedRegion)

\* the table is rendered: datasets is neither null nor empty
TableShown == Truthy(Hook.datasets) /\ Len(Hook.datasets.items) > 0

\* the page after its first render, over the hook mounted with datasets =
\* null; selectedIds in insertion order; fetched is an observer's: whether
\* the file of the last download issued was available at that time
InitCenter ==
  /\ HookAtRest
  /\ LoaderAtRest
  /\ sampleFiles = Some([datasets |-> Null, fileStatus |-> EmptyMap,
                         loading |-> FALSE, isMountedRef |-> TRUE,
                         batches |-> <<>>, checks |-> <<>>, settled |-> None,
                         manual |-> FALSE])
  /\ center = Some([selectedIds |-> <<>>, selectedRegion |-> "all",
                    bulk |-> None, fetched |-> None])

UpdateCenter(p) ==
  /\ center' = Some(p)
  /\ UNCHANGED <<hookVars, loaderVars, locals, sampleFiles>>

handleSelectAll ==
  /\ TableShown
  /\ LET IsAvailable(d) == Available(Hook.fileStatus, d.sampleFileName)
         availableDatasets == SelectSeq(Rows, IsAvailable)
     IN UpdateCenter([Page EXCEPT !.selectedIds =
                        IF Len(@) = Len(availableDatasets)
                        THEN <<>>
                        ELSE [i \in DOMAIN availableDatasets |-> availableDatasets[i].id]])

handleRegionChange ==
  /\ TableShown
  /\ \E region \in {"all"} \cup {d.region : d \in {DatasetsOf(Hook.datasets)[i] :
                                                   i \in DOMAIN DatasetsOf(Hook.datasets)}} :
       UpdateCenter([Page EXCEPT !.selectedRegion = region, !.selectedIds = <<>>])

\* handleSelectRow(id) from the checkbox of a row, which is disabled when the
\* file's status is false
handleSelectRow ==
  /\ TableShown
  /\ \E k \in DOMAIN Rows :
       LET id == Rows[k].id
           Other(x) == x # id
       IN /\ Available(Hook.fileStatus, Rows[k].sampleFileName)
          /\ UpdateCenter([Page EXCEPT !.selectedIds =
                             IF \E j \in DOMAIN @ : @[j] = id
                             THEN SelectSeq(@, Other)
                             ELSE Append(@, id)])

\* the try / catch of handleDownloadSample: it returns whether
\* downloadSampleFile gave a blob (ok) or threw
handleDownloadSampleEnds(ok) ==
  [kind |-> "returned",
   toast |-> IF ok THEN "Download Complete" ELSE "Download Failed"]

Fetch(dataset, by) ==
  Some([available |-> Available(Hook.fileStatus, dataset.sampleFileName),
        by |-> by])

\* handleDownloadSample(dataset) from the button of a row, which is rendered
\* when the statuses are loaded and the file's status is not false
handleDownloadSample ==
  /\ TableShown
  /\ ~Hook.loading
  /\ \E k \in DOMAIN Rows, ok \in BOOLEAN :
       /\ Available(Hook.fileStatus, Rows[k].sampleFileName)
       /\ handleDownloadSampleEnds(ok).kind = "returned"
       /\ UpdateCenter([Page EXCEPT !.fetched = Fetch(Rows[k], "handleDownloadSample")])

\* the selected ids from the first one that has a dataset
RECURSIVE SkipMissing(_, _)
SkipMissing(queue, ds) ==
  IF queue = <<>> \/ Find(ds, Head(queue)) # None
  THEN queue
  ELSE SkipMissing(Tail(queue), ds)

\* the loop of handleDownloadSelected up to its next await, or its final toast
BulkLoop(b) ==
  LET queue == SkipMissing(b.queue, b.filteredDatasets)
  IN IF queue = <<>>
     THEN UpdateCenter([Page EXCEPT
            !.bulk = Some([b EXCEPT
                             !.queue = <<>>,
                             !.at = "done",
                             !.toast = IF b.failureCount = 0
                                       THEN "Bulk Download Complete"
                                       ELSE "Bulk Download Completed with Errors"])])
     ELSE UpdateCenter([Page EXCEPT
            !.bulk = Some([b EXCEPT !.queue = queue, !.at = "downloading"]),
            !.fetched = Fetch(Val(Find(b.filteredDatasets, Head(queue))),
                              "handleDownloadSelected")])

\* handleDownloadSelected from its button, which is rendered when something
\* is selected; one bulk download at a time. toast is its last bulk toast;
\* downloaded and failed are an observer's: the downloads that gave a blob,
\* and those that threw
handleDownloadSelected ==
  /\ TableShown
  /\ Len(Page.selectedIds) > 0
  /\ Page.bulk # None => Val(Page.bulk).at = "done"
  /\ BulkLoop([queue |-> Page.selectedIds, filteredDatasets |-> Rows, at |-> "started",
               toast |-> "Bulk Download Started",
               successCount |-> 0, failureCount |-> 0,
               downloaded |-> 0, failed |-> 0])

\* await handleDownloadSample(dataset) ends
BulkDownloadSettles ==
  /\ Page.bulk # None
  /\ Val(Page.bulk).at = "downloading"
  /\ \E ok \in BOOLEAN :
       LET b == [Val(Page.bulk) EXCEPT !.downloaded = IF ok THEN @ + 1 ELSE @,
                                       !.failed = IF ok THEN @ ELSE @ + 1]
       IN IF handleDownloadSampleEnds(ok).kind = "returned"
          THEN UpdateCenter([Page EXCEPT
                 !.bulk = Some([b EXCEPT !.successCount = @ + 1, !.at = "delay"])])
          ELSE BulkLoop([b EXCEPT !.failureCount = @ + 1, !.queue = Tail(@)])

\* the 500 ms between two downloads are over
BulkDelayElapsed ==
  /\ Page.bulk # None
  /\ Val(Page.bulk).at = "delay"
  /\ BulkLoop([Val(Page.bulk) EXCEPT !.queue = Tail(@)])

\* useDatasets gives the page other data
DatasetsLoaded ==
  /\ center # None
  /\ \E c \in LoadedDatasets : RenderWith(c)

NextCenter ==
  \/ DatasetsLoaded
  \/ ProbeSettles
  \/ handleSelectAll
  \/ handleRegionChange
  \/ handleSelectRow
  \/ handleDownloadSample
  \/ handleDownloadSelected
  \/ BulkDownloadSettles
  \/ BulkDelayElapsed

SpecCenter == InitCenter /\ [][NextCenter]_vars

\* ------------------------------------------------------------ vocabulary
\* the continuations in bag B that belong to the mounted instance
Live(B) == {x \in BagToSet(B) : x.owner = "current"}
LiveCount(B) == BagCardinality([x \in Live(B) |-> B[x]])
Orphans(B) == {x \in BagToSet(B) : x.owner = "unmounted"}

HookState == <<data, loading, error, retryCount>>

\* calculateRetryDelay as the retry-timing rule states it
ExpectedDelay(k) ==
  IF opts.exponentialBackoff
  THEN CASE k = 1 -> opts.retryDelay
         [] k = 2 -> 2 * opts.retryDelay
         [] k = 3 -> 4 * opts.retryDelay
         [] k = 4 -> 8 * opts.retryDelay
         [] OTHER -> 16 * opts.retryDelay
  ELSE opts.retryDelay

\* s is delay ms rounded up to whole seconds
IsCeilSeconds(s, delay) == s * 1000 >= delay /\ (s - 1) * 1000 < delay

\* ------------------------------------------------------------ claims

\* C1: a Loader failure with recoverable = false on any attempt of an attached
\* consumer leads to Failed on that attempt: the plain message is surfaced and
\* no retry timer is scheduled.
C1_NonRecoverableFailsAtOnce ==
  [][\A c \in BagToSet(calls), err \in LoaderErrors :
       (LoaderReject(c, err) /\ Mounted(c) /\ ~err.recoverable)
         => (timers' = timers /\ error' = PlainMessage(err.message))]_vars

\* C2: the outcome of a Loader call that was in flight when reload() started a
\* new cycle is discarded: its completion writes none of data, error,
\* retryCount, loading and the cache entry.
C2_SupersededOutcomeDiscarded ==
  [][\A c \in BagToSet(calls) :
       (Mounted(c) /\ c.superseded)
         => /\ \A datasets \in RecordLists :
                 LoaderResolve(c, datasets) => UNCHANGED <<HookState, dataCache>>
            /\ \A err \in LoaderErrors :
                 LoaderReject(c, err) => UNCHANGED <<HookState, dataCache>>]_vars

\* C3: an attached consumer never has two outstanding Loader calls, nor an
\* outstanding call together with a pending retry timer, nor two pending
\* retry timers.
C3_OneActiveCycle ==
  LiveCount(calls) + LiveCount(timers) <= 1

\* C4 (under SpecRecoverable): when attempt maxRetries (maxRetries >= 1) fails,
\* the controller is Failed - data null, the plain message, retryCount =
\* maxRetries, loading false - and no retry timer is pending.
C4_ExhaustedRetriesFail ==
  [][\A c \in BagToSet(calls), err \in LoaderErrors :
       (LoaderReject(c, err) /\ Mounted(c) /\ opts.maxRetries >= 1
          /\ c.attempt = opts.maxRetries)
         => /\ data' = None
            /\ error' = PlainMessage(err.message)
            /\ retryCount' = opts.maxRetries
            /\ loading' = FALSE
            /\ LiveCount(timers') = 0]_vars

\* C5: the mount auto-load of an attached consumer, met by a cache entry with
\* now - timestamp < cacheDuration, shows the cached records with error null,
\* retryCount 0 and loading false and makes no Loader call; met by no entry or
\* by one with now - timestamp >= cacheDuration it makes a Loader call.
C5_CacheHitOrFetch ==
  [][(last'[1] = "mount" /\ MountEffect /\ opts.autoLoad)
       => IF dataCache # None /\ now - Val(dataCache).timestamp < opts.cacheDuration
          THEN /\ data' = Some(Val(dataCache).data)
               /\ error' = None
               /\ retryCount' = 0
               /\ loading' = FALSE
               /\ calls' = calls
          ELSE /\ BagCardinality(calls') = BagCardinality(calls) + 1
               /\ \E c \in Live(calls') : c.attempt = 1 /\ ~BagIn(c, calls)]_vars

\* a consumer mounted onto a fresh cache entry shows it with no Loader call
C5_Witness ==
  /\ last = <<"mount", TRUE>>
  /\ opts.autoLoad
  /\ dataCache # None /\ data = Some(Val(dataCache).data)
  /\ now > Val(dataCache).timestamp
  /\ ~loading /\ LiveCount(calls) = 0

\* C6: reload() on an attached consumer deletes the cache entry, sets
\* retryCount to 0 and makes a Loader call as attempt 1, also when a cache
\* entry younger than cacheDuration existed just before.
C6_ReloadBypassesCache ==
  [][(last'[1] = "reload" /\ reload)
       => /\ dataCache' = None
          /\ retryCount' = 0
          /\ loading' = TRUE
          /\ BagCardinality(calls') = BagCardinality(calls) + 1
          /\ BagIn([owner |-> "current", attempt |-> 1, superseded |-> FALSE], calls')]_vars

\* reload() has just run on a fresh cache entry
C6_Witness ==
  /\ last = <<"reload", TRUE>>
  /\ dataCache = None
  /\ retryCount = 0
  /\ \E c \in Live(calls) : c.attempt = 1

\* C7: once the consumer has unmounted, its outstanding Loader calls and
\* pending timers change none of data, loading, error and retryCount when they
\* complete or fire, and none of its timers makes a Loader call.
C7_NothingAfterUnmount ==
  [][/\ (phase = "unmounted" /\ phase' = "unmounted")
          => (UNCHANGED HookState /\ BagCardinality(calls') <= BagCardinality(calls))
     /\ \A c \in Orphans(calls) :
          /\ \A datasets \in RecordLists :
               (last'[1] = "resolve" /\ LoaderResolve(c, datasets))
                 => UNCHANGED <<HookState, timers>>
          /\ \A err \in LoaderErrors :
               (last'[1] = "reject" /\ LoaderReject(c, err))
                 => UNCHANGED <<HookState, timers>>
     /\ \A t \in Orphans(timers) :
          (last'[1] = "timer" /\ TimerFire(t)) => UNCHANGED <<HookState, calls>>]_vars

\* a Loader call of the unmounted consumer has just resolved
C7_Witness ==
  /\ phase = "unmounted"
  /\ last = <<"resolve", FALSE>>

\* C8: while a Loader call of the attached consumer is outstanding or one of
\* its retry timers is pending, loading is true (so the error screen, shown
\* when loading is false and error is set with no data, is not).
C8_LoadingWhileActive ==
  (phase = "mounted" /\ LiveCount(calls) + LiveCount(timers) > 0) => loading

\* C9: when a Loader call returns records to an attached consumer, data is
\* those records, error is null, retryCount is 0 and the cache slot holds
\* those records with the time of the write.
C9_SuccessWritesStateAndCache ==
  [][\A c \in BagToSet(calls), datasets \in RecordLists :
       (last'[1] = "resolve" /\ LoaderResolve(c, datasets) /\ Mounted(c))
         => /\ data' = Some(datasets)
            /\ error' = None
            /\ retryCount' = 0
            /\ dataCache' = Some([data |-> datasets, timestamp |-> now])]_vars

\* a Loader call has just returned records, some time after the mount
C9_Witness ==
  /\ last = <<"resolve", TRUE>>
  /\ data # None /\ dataCache # None
  /\ Val(dataCache).data = Val(data)
  /\ Val(dataCache).timestamp = now
  /\ now > 0

\* C10: the retry scheduled after failed attempt k < maxRetries has delay
\* retryDelay * 2^(k-1) with exponentialBackoff and retryDelay without, it
\* does not fire before that delay has passed, and the surfaced message is
\* annotated with the delay rounded up to whole seconds.
C10_RetryDelay ==
  [][/\ \A c \in BagToSet(calls), err \in LoaderErrors :
          (last'[1] = "reject" /\ LoaderReject(c, err) /\ Mounted(c)
             /\ c.attempt < opts.maxRetries)
            => /\ \E t \in BagToSet(timers') :
                    /\ t.ref /\ t.set = now /\ t.attempt = c.attempt
                    /\ t.delay = ExpectedDelay(c.attempt)
                    /\ BagCardinality(timers') = BagCardinality(timers) + 1
               /\ Len(error') = 2
               /\ error'[1] = err.message
               /\ IsCeilSeconds(error'[2], ExpectedDelay(c.attempt))
     /\ \A t \in BagToSet(timers) :
          (last'[1] = "timer" /\ TimerFire(t))
            => now - t.set >= ExpectedDelay(t.attempt)]_vars

\* with retryDelay = 1000 and backoff, the retry after attempt 3 waits 4000 ms
C10_Witness ==
  /\ opts.retryDelay = 1000 /\ opts.exponentialBackoff
  /\ last[1] = "reject"
  /\ \E t \in Live(timers) : t.attempt = 3 /\ t.delay = 4000 /\ t.set = now
  /\ Len(error) = 2 /\ error[2] = 4

\* ------------------------------------------------------------ record claims
\* the result of a finished validateDatasetDetailed(input)
Validated ==
  output # None /\ Val(output).fn = "validateDatasetDetailed"

IsObject(v) == Truthy(v) /\ typeof(v) = "object"

ErrorFields(result) == {result.errors[i].field : i \in 1..Len(result.errors)}

WarningFields(result) == {result.warnings[i].field : i \in 1..Len(result.warnings)}

\* the value v breaks an error rule of field f: the sample record with only
\* f set to v does not validate
FailsAlone(f, v) ==
  ~validateDatasetDetailed(Obj([SampleRecord EXCEPT ![f] = v]), "dataset").isValid

\* C16: validateDatasetDetailed applies every field rule to an object record
\* whatever the other fields are: each of the seven fields that is missing,
\* or whose value breaks an error rule, has an entry of its name in errors;
\* isValid is true exactly when errors is empty, which is exactly when no
\* field breaks an error rule, whatever warnings there are.
C16_EveryFieldReported ==
  (Validated /\ IsObject(input)) =>
    LET result == Val(output).result
    IN /\ \A f \in RecordFields :
            (Get(input, f) \in {Undefined, Null} \/ FailsAlone(f, Get(input, f)))
              => f \in ErrorFields(result)
       /\ result.isValid <=> (Len(result.errors) = 0)
       /\ result.isValid <=> (\A f \in RecordFields : ~FailsAlone(f, Get(input, f)))

\* a record with two fields at fault has been validated, both are reported
C16_Witness ==
  /\ Validated /\ IsObject(input)
  /\ Cardinality({f \in RecordFields : FailsAlone(f, Get(input, f))}) >= 2
  /\ Cardinality(ErrorFields(Val(output).result)) >= 2

\* a postalCodeCount that is the integer n
IsInt(v) == v.type = "number" /\ v.den = 1

CountWarnings(result) ==
  Len(SelectSeq(result.warnings, LAMBDA w : w.field = "postalCodeCount"))

OtherFieldsValid(r) ==
  \A f \in RecordFields \ {"postalCodeCount"} : ~FailsAlone(f, Get(r, f))

\* C17: on a record whose other fields are valid, an integer postalCodeCount
\* of 0 or less is an error; one of 1 to 10,000,000 is neither an error nor a
\* warning; one above 10,000,000 is no error and exactly one postalCodeCount
\* warning.
C17_PostalCodeCountRanges ==
  (/\ Validated /\ IsObject(input) /\ OtherFieldsValid(input)
   /\ IsInt(Get(input, "postalCodeCount"))) =>
    LET result == Val(output).result
        n == Get(input, "postalCodeCount").num
    IN /\ n <= 0 => ("postalCodeCount" \in ErrorFields(result) /\ ~result.isValid)
       /\ (1 <= n /\ n <= 10000000) =>
            (result.isValid /\ Len(result.errors) = 0 /\ CountWarnings(result) = 0)
       /\ n > 10000000 =>
            (result.isValid /\ Len(result.errors) = 0 /\ CountWarnings(result) = 1)

\* the largest count without a warning has been validated
C17_Witness ==
  /\ Validated /\ IsObject(input) /\ OtherFieldsValid(input)
  /\ Get(input, "postalCodeCount") = Num(10000000)
  /\ Val(output).result.isValid

\* ------------------------------------------------------------ loader claims
\* a finished call of fn
Finished(fn) == output # None /\ Val(output).fn = fn

\* loadDatasets has finished on a document the import resolved with
Loaded == Finished("loadDatasets") /\ input.import = "resolves"

EnvelopePasses(doc) == validateDatasetCollectionDetailed(doc).isValid

Items(doc) == Get(doc, "datasets").items

PassesAlone(r) == validateDatasetDetailed(r, "dataset").isValid

IsPlace(field, r, items) ==
  \E k \in 1..Len(items) : items[k] = r /\ field = "dataset[" \o ToString(k - 1) \o "]"

\* a filterResult partitions items: valid holds the records that pass on their
\* own, invalid the others, both in the order of items; each invalid entry has
\* errors, each naming a field of the record that fails (its place in the
\* collection when the record is not an object); the lengths add up
Partitions(filterResult, items) ==
  /\ filterResult.valid = SelectSeq(items, PassesAlone)
  /\ [i \in 1..Len(filterResult.invalid) |-> filterResult.invalid[i].dataset]
       = SelectSeq(items, LAMBDA r : ~PassesAlone(r))
  /\ \A i \in 1..Len(filterResult.invalid) :
       LET entry == filterResult.invalid[i]
       IN /\ Len(entry.errors) > 0
          /\ \A k \in 1..Len(entry.errors) :
               LET field == entry.errors[k].field
               IN IF IsObject(entry.dataset)
                  THEN /\ field \in RecordFields
                       /\ \/ Get(entry.dataset, field) \in {Undefined, Null}
                          \/ FailsAlone(field, Get(entry.dataset, field))
                  ELSE IsPlace(field, entry.dataset, items)
  /\ Len(filterResult.valid) + Len(filterResult.invalid) = filterResult.totalProcessed
  /\ filterResult.totalProcessed = Len(items)

\* C11: for a collection whose envelope passes and that holds a valid record,
\* loadDatasets returns, without an error, exactly the records that pass
\* validateDatasetDetailed on their own, in their order; the others are in the
\* invalid list, each with errors naming the failing fields, and
\* valid.length + invalid.length = totalProcessed = the number of records.
\* filterValidDatasets called on its own partitions every array so.
C11_ValidSubsetReturned ==
  /\ (/\ Loaded
      /\ EnvelopePasses(input.default)
      /\ \E i \in 1..Len(Items(input.default)) : PassesAlone(Items(input.default)[i])) =>
       LET result == Val(output).result
       IN /\ result.kind = "returned"
          /\ result.value = SelectSeq(Items(input.default), PassesAlone)
          /\ result.filterResult # None
          /\ Partitions(Val(result.filterResult), Items(input.default))
  /\ Finished("filterValidDatasets") =>
       Partitions(Val(output).result, Items(input.default))

\* a collection with a valid and an invalid record has been loaded
C11_Witness ==
  /\ Loaded
  /\ Val(output).result.kind = "returned"
  /\ Len(Val(Val(output).result.filterResult).invalid) > 0

\* C12: every sequence loadDatasets returns holds records that each pass
\* validateDatasetDetailed and whose ids are pairwise distinct.
C12_ReturnedIdsDistinct ==
  (Loaded /\ Val(output).result.kind = "returned") =>
    LET value == Val(output).result.value
    IN /\ \A i \in 1..Len(value) : PassesAlone(value[i])
       /\ \A i, j \in 1..Len(value) :
            i # j => Get(value[i], "id") # Get(value[j], "id")

\* C13: when the envelope passes and no record passes on its own (an empty
\* datasets array included), loadDatasets throws a VALIDATION_ERROR with
\* recoverable = true; it never returns an empty sequence.
C13_NoValidRecordIsRecoverable ==
  Loaded =>
    LET result == Val(output).result
    IN /\ (/\ EnvelopePasses(input.default)
           /\ \A i \in 1..Len(Items(input.default)) :
                ~PassesAlone(Items(input.default)[i])) =>
            /\ result.kind = "raised"
            /\ result.error.code = "VALIDATION_ERROR"
            /\ result.error.recoverable = TRUE
       /\ result.kind = "returned" => Len(result.value) > 0

\* an empty datasets array under a passing envelope has been loaded
C13_Witness ==
  /\ Loaded
  /\ EnvelopePasses(input.default)
  /\ Len(Items(input.default)) = 0
  /\ Val(output).result.kind = "raised"

\* C14: when validateDatasetCollectionDetailed reports an error for the
\* document, loadDatasets throws a VALIDATION_ERROR with recoverable = false
\* and has not called filterValidDatasets.
C14_EnvelopeErrorIsFatal ==
  (Loaded /\ Len(validateDatasetCollectionDetailed(input.default).errors) >= 1) =>
    LET result == Val(output).result
    IN /\ result.kind = "raised"
       /\ result.error.code = "VALIDATION_ERROR"
       /\ result.error.recoverable = FALSE
       /\ result.filterResult = None

\* a document with valid records and no metadata has been loaded
C14_Witness ==
  /\ Loaded
  /\ Truthy(input.default)
  /\ isArray(Get(input.default, "datasets"))
  /\ \E i \in 1..Len(Items(input.default)) : PassesAlone(Items(input.default)[i])
  /\ ~EnvelopePasses(input.default)
  /\ Val(output).result.kind = "raised"

\* an error with a kind and a recoverable flag that agree: not recoverable
\* for parse, not-found, permission and envelope validation errors,
\* recoverable for timeout, network, unknown and no-valid-record errors
KindAndFlagAgree(err, envelopeFailed) ==
  /\ {"code", "recoverable"} \subseteq DOMAIN err
  /\ err.code \in DOMAIN ERROR_MESSAGES
  /\ err.recoverable \in BOOLEAN
  /\ ~err.recoverable <=>
       \/ err.code \in {"PARSE_ERROR", "FILE_NOT_FOUND", "PERMISSION_ERROR"}
       \/ err.code = "VALIDATION_ERROR" /\ envelopeFailed

EnvelopeFailed ==
  input.import = "resolves" /\ ~EnvelopePasses(input.default)

\* C15: every error a loadDatasets throws, in either DataLoader, carries a
\* kind and a recoverable flag, and recoverable is false exactly for parse,
\* not-found, permission and envelope-level validation errors.
C15_EveryErrorClassified ==
  ((Finished("loadDatasets") \/ Finished("simpleLoadDatasets"))
     /\ Val(output).result.kind = "raised") =>
    KindAndFlagAgree(Val(output).result.error, EnvelopeFailed)

\* the same of the loadDatasets with the catch block of lines 558-595 alone
C15_DetailedLoaderClassifies ==
  (Finished("loadDatasets") /\ Val(output).result.kind = "raised") =>
    KindAndFlagAgree(Val(output).result.error, EnvelopeFailed)

\* ------------------------------------------------------------ schema claims
\* two records of items that pass on their own share the value of field
Repeats(items, field) ==
  \E i, j \in 1..Len(items) :
    /\ i < j
    /\ PassesAlone(items[i]) /\ PassesAlone(items[j])
    /\ Get(items[i], field) = Get(items[j], field)

HasEntry(entries, field, text) ==
  \E k \in 1..Len(entries) :
    entries[k].field = field /\ includes(entries[k].message, text)

\* C18: in validateJsonSchema, under a passing envelope, two records that
\* each pass on their own and share an id give the result an error on id and
\* isValid = false; two that share a countryCode give it a warning on
\* countryCode and leave isValid as it is without them: isValid is true
\* exactly when every record passes and no id repeats.
C18_DuplicateIdErrorCodeWarning ==
  (Finished("validateJsonSchema") /\ EnvelopePasses(input.default)) =>
    LET result == Val(output).result
        items == Items(input.default)
    IN /\ Repeats(items, "id") =>
            (~result.isValid /\ HasEntry(result.errors, "id", "Duplicate dataset ID"))
       /\ Repeats(items, "countryCode") =>
            /\ HasEntry(result.warnings, "countryCode", "Duplicate country code")
            /\ ~HasEntry(result.errors, "countryCode", "Duplicate")
       /\ result.isValid <=>
            /\ \A i \in 1..Len(items) : PassesAlone(items[i])
            /\ ~Repeats(items, "id")

\* two valid records with one countryCode and two ids have been checked: the
\* result is valid and warns
C18_Witness ==
  /\ Finished("validateJsonSchema")
  /\ EnvelopePasses(input.default)
  /\ Repeats(Items(input.default), "countryCode")
  /\ ~Repeats(Items(input.default), "id")
  /\ Val(output).result.isValid

\* a document with the right types everywhere: an object with a datasets
\* array, and a metadata object with a string lastUpdated, a string version
\* and a number totalCountries
WellTyped(doc) ==
  /\ IsObject(doc)
  /\ isArray(Get(doc, "datasets"))
  /\ IsObject(Get(doc, "metadata"))
  /\ typeof(Get(Get(doc, "metadata"), "lastUpdated")) = "string"
  /\ typeof(Get(Get(doc, "metadata"), "version")) = "string"
  /\ typeof(Get(Get(doc, "metadata"), "totalCountries")) = "number"

\* the four defects the validator is lenient on
EmptyDatasets(doc) == Len(Items(doc)) = 0
CountMismatch(doc) == Get(Get(doc, "metadata"), "totalCountries") # Num(Len(Items(doc)))
BadDate(doc) == Get(Get(doc, "metadata"), "lastUpdated") # Str("2024-01-15")
BadVersion(doc) == Get(Get(doc, "metadata"), "version") # Str("1.0.0")

\* C19 as stated: a well-typed document, whatever its datasets length, its
\* totalCountries, the form of its lastUpdated and of its version, has
\* isValid = true and no errors.
C19_LenientAsStated ==
  (Finished("validateDatasetCollectionDetailed") /\ WellTyped(input.default)) =>
    (Val(output).result.isValid /\ Len(Val(output).result.errors) = 0)

\* C19: a well-typed document whose totalCountries is not negative has
\* isValid = true and no errors, and one warning for each of: an empty
\* datasets array, a totalCountries that differs from the datasets length, a
\* lastUpdated not in YYYY-MM-DD form, a version not in x.y.z form.  A
\* negative totalCountries is an error.
C19_LenientOnNonNegative ==
  (Finished("validateDatasetCollectionDetailed") /\ WellTyped(input.default)) =>
    LET result == Val(output).result
        doc == input.default
        negative == Get(Get(doc, "metadata"), "totalCountries").num < 0
    IN /\ ~negative =>
            /\ result.isValid /\ Len(result.errors) = 0
            /\ EmptyDatasets(doc) <=> "datasets" \in WarningFields(result)
            /\ CountMismatch(doc) <=> "metadata.totalCountries" \in WarningFields(result)
            /\ BadDate(doc) <=> "metadata.lastUpdated" \in WarningFields(result)
            /\ BadVersion(doc) <=> "metadata.version" \in WarningFields(result)
       /\ negative =>
            (~result.isValid /\ ErrorFields(result) = {"metadata.totalCountries"})

\* a document with all four defects has been validated
C19_Witness ==
  /\ Finished("validateDatasetCollectionDetailed") /\ WellTyped(input.default)
  /\ EmptyDatasets(input.default) /\ CountMismatch(input.default)
  /\ BadDate(input.default) /\ BadVersion(input.default)
  /\ Val(output).result.isValid
  /\ Len(Val(output).result.warnings) = 4

\* ------------------------------------------------------------ asset claims
\* a non-empty string that ends with .csv
AcceptedFilename(v) == v.type = "string" /\ v.str # "" /\ endsWith(v.str, ".csv")

\* the HEAD probe completes with a 2xx status within ms milliseconds
ProbeOkWithin(fetch, ms) ==
  /\ fetch.settles = "response"
  /\ fetch.status \in 200..299
  /\ fetch.after <= ms

\* a finished check returned a boolean, and true only for an accepted
\* filename whose probe completed with 2xx by the 5 s timeout; a probe that
\* completed with 2xx before it gives true
ChecksAsClaimed ==
  LET result == Val(output).result
  IN /\ result.kind = "returned"
     /\ result.value \in BOOLEAN
     /\ result.value =>
          (AcceptedFilename(input.filename) /\ ProbeOkWithin(input.fetch, 5000))
     /\ (AcceptedFilename(input.filename) /\ ProbeOkWithin(input.fetch, 4999))
          => result.value

\* C20: checkFileExists, in either DataLoader, never throws; it returns true
\* only when the HEAD probe completes with a 2xx status before the 5 s
\* timeout, and false for an empty or non-string filename, a filename
\* getAssetPath rejects, a network error, a timeout and a non-2xx status.
C20_ExistsOnlyOn2xxInTime ==
  (Finished("checkFileExists") \/ Finished("simpleCheckFileExists")) => ChecksAsClaimed

\* the same of the checkFileExists of lines 968-993 alone
C20_DetailedCheckAsClaimed ==
  Finished("checkFileExists") => ChecksAsClaimed

\* ------------------------------------------------------------ download claims
\* the call under way met a response last
MetResponse == locals # None /\ Val(locals).met # None /\ "status" \in DOMAIN Val(Val(locals).met)

TransferCodes == {"NETWORK_ERROR", "TIMEOUT_ERROR", "UNKNOWN_ERROR"}

\* result is what fetchBytes is to give for response r
ClassifiedAsClaimed(result, r) ==
  IF r.status \in 200..299
  THEN IF r.size > 0
       THEN result = Value(Blob(r.size))
       ELSE result.kind = "raised" /\ result.error = EmptyFileError
  ELSE /\ result.kind = "raised"
       /\ IsDataLoaderError(result.error)
       /\ result.error.code =
            (CASE r.status = 404 -> "FILE_NOT_FOUND"
               [] r.status = 403 -> "PERMISSION_ERROR"
               [] OTHER -> result.error.code)
       /\ r.status \notin {404, 403} => result.error.code \in TransferCodes

\* a finished download returned a blob only for a 2xx response with a
\* non-empty body, and failed as the last response it met requires
DownloadsAsClaimed ==
  LET result == Val(output).result
  IN /\ result.kind = "returned" =>
          /\ result.value.size > 0
          /\ MetResponse
          /\ Val(Val(locals).met).status \in 200..299
     /\ MetResponse => ClassifiedAsClaimed(result, Val(Val(locals).met))

\* C21: downloadSampleFile, in either DataLoader, returns bytes only for a
\* 2xx response with a non-empty body; 404 ends in FILE_NOT_FOUND, 403 in
\* PERMISSION_ERROR, every other non-2xx status in a transfer failure and a
\* 2xx response with a zero-byte body in the empty-file failure, so a
\* zero-byte blob is never returned.
C21_DownloadOutcomes ==
  (Finished("downloadSampleFile") \/ Finished("simpleDownloadSampleFile"))
    => DownloadsAsClaimed

\* the same of the downloadSampleFile of lines 1002-1142 alone
C21_DetailedDownloadOutcomes ==
  Finished("downloadSampleFile") => DownloadsAsClaimed

\* a finished getAssetPath failed for a filename that is empty or does not
\* end in .csv, and gave the base path joined with any other filename
ResolvesAsClaimed ==
  LET result == Val(output).result
  IN IF AcceptedFilename(input.filename)
     THEN result = Value(ASSETS_BASE_PATH \o "/" \o input.filename.str)
     ELSE result.kind = "raised"

\* C22: getAssetPath, in either DataLoader, fails for an empty filename and
\* for every filename that does not end in .csv, and gives the assets base
\* path joined with the filename for every other one; a rejected filename
\* never gets a path.
C22_PathOnlyForCsv ==
  (Finished("getAssetPath") \/ Finished("simpleGetAssetPath")) => ResolvesAsClaimed

\* the same of the getAssetPath of lines 950-961 alone
C22_DetailedPathOnlyForCsv ==
  Finished("getAssetPath") => ResolvesAsClaimed

\* a call of the downloadSampleFile of lines 1002-1142 that passed the
\* filename guard is under way or has ended
InLoop ==
  /\ locals # None
  /\ Val(locals).site \in {"running", "loop", "end"}

\* a non-empty string that does not end with .csv
NotCsv(v) == v.type = "string" /\ v.str # "" /\ ~endsWith(v.str, ".csv")

\* C28: downloadSampleFile with a non-empty filename that does not end in
\* .csv fails on its first attempt: no fetch is issued, no backoff delay is
\* waited for and no second attempt is made before the error is raised.
C28_BadFilenameFailsAtOnce ==
  (InLoop /\ NotCsv(input.filename)) =>
    /\ Val(locals).fetches = 0
    /\ Val(locals).waits = <<>>
    /\ Val(locals).attempt = 1
    /\ pc = "done"
    /\ Val(output).result.kind = "raised"

\* the part of C28 the code keeps: such a call never fetches and ends in
\* the error of getAssetPath
C28_BadFilenameNeverFetches ==
  (InLoop /\ NotCsv(input.filename) /\ input.maxRetries >= 0) =>
    /\ Val(locals).fetches = 0
    /\ pc = "done" => Val(output).result = getAssetPath(input.filename)

\* C30: for maxRetries >= 0 a call that passed the filename guard makes at
\* most maxRetries + 1 attempts and fetches, has waited 2^(k-1) seconds after
\* each failed attempt k that was retried, and ends inside the loop with a
\* blob or an error: the throw after the loop is not reached.
C30_BoundedAttempts ==
  (InLoop /\ input.maxRetries >= 0) =>
    LET frame == Val(locals)
    IN /\ frame.attempt \in 1..(input.maxRetries + 1)
       /\ frame.fetches <= frame.attempt
       /\ Len(frame.waits) = (IF pc = "backoff" THEN frame.attempt ELSE frame.attempt - 1)
       /\ \A k \in 1..Len(frame.waits) : frame.waits[k] = (2 ^ (k - 1)) * 1000
       /\ pc = "done" =>
            /\ frame.site = "loop"
            /\ \/ Val(output).result.kind = "raised"
               \/ Val(output).result.kind = "returned" /\ Val(output).result.value.type = "blob"

\* every attempt allowed was made and failed
C30_Witness ==
  /\ Finished("downloadSampleFile")
  /\ input.maxRetries = MaxDownloadRetries
  /\ Val(locals).fetches = MaxDownloadRetries + 1
  /\ Len(Val(locals).waits) = MaxDownloadRetries
  /\ Val(output).result.kind = "raised"

\* with maxRetries below 0 the loop is skipped and the throw after it is reached
C30_AfterLoopReached ==
  /\ Finished("downloadSampleFile")
  /\ input.maxRetries < 0
  /\ Val(locals).site = "end"

\* ------------------------------------------------------------ page claims
\* the sampleFileName values of collection c
FileNamesOf(c) ==
  IF ~Truthy(c) THEN {} ELSE {c.items[i] : i \in DOMAIN c.items}

\* C23: once every outstanding existence probe of a mounted
\* useSampleFileStatus has settled (checkFile never called), fileStatus has exactly the sampleFileName
\* values of the active collection as keys (none when it is null or empty),
\* each mapped to the result of its probe, and loading is false, in whatever
\* order the probes and the batches completed.
C23_StatusOfActiveCollection ==
  (sampleFiles # None /\ Val(sampleFiles).isMountedRef
     /\ ~Val(sampleFiles).manual /\ Outstanding(Val(sampleFiles)) = 0) =>
    LET h == Val(sampleFiles)
    IN /\ DOMAIN h.fileStatus = FileNamesOf(h.datasets)
       /\ FileNamesOf(h.datasets) # {} => h.fileStatus = Val(h.settled)
       /\ ~h.loading

\* C24: no download, from the button of a row or from Download Selected,
\* is issued for a record whose file status is false at that time.
C24_NoDownloadOfUnavailable ==
  (center # None /\ Page.fetched # None) => Val(Page.fetched).available

\* the same of the button of a row alone
C24_RowButtonOnlyIfAvailable ==
  (center # None /\ Page.fetched # None
     /\ Val(Page.fetched).by = "handleDownloadSample") => Val(Page.fetched).available

\* C29: when handleDownloadSelected has finished, successCount is the number
\* of selected records whose file was downloaded, failureCount the number
\* whose download failed, and the final toast is 'Bulk Download Completed
\* with Errors' exactly when a download failed.
C29_BulkCountsOutcomes ==
  (center # None /\ Page.bulk # None /\ Val(Page.bulk).at = "done") =>
    LET b == Val(Page.bulk)
    IN /\ b.successCount = b.downloaded
       /\ b.failureCount = b.failed
       /\ (b.toast = "Bulk Download Completed with Errors") <=> (b.failed >= 1)

\* what the code keeps of C29: successCount counts the downloads attempted
C29_BulkCountsAttempts ==
  (center # None /\ Page.bulk # None /\ Val(Page.bulk).at = "done") =>
    LET b == Val(Page.bulk)
    IN /\ b.successCount = b.downloaded + b.failed
       /\ b.failureCount = 0
       /\ b.toast = "Bulk Download Complete"

\* ------------------------------------------------------------ hook claims
\* C25: while the component stays mounted, also after the mount effect has
\* run again for changed options, a Loader call of this instance that
\* resolves delivers its records and ends loading, loading is true only
\* while such a call is outstanding, and reload() invokes the Loader.
C25_RerunKeepsAttached ==
  [][phase = "mounted" =>
       /\ \A c \in Live(calls), datasets \in RecordLists :
            LoaderResolve(c, datasets) => (data' = Some(datasets) /\ ~loading')
       /\ loading => Live(calls) # {}
       /\ (last'[1] = "reload" /\ reload) =>
            BagCardinality(calls') = BagCardinality(calls) + 1]_vars

\* C26: the cache entry is written only by a Loader call that resolves for
\* an attached consumer: a rejected call (retried or given up), a mount that
\* hits the cache, a retry timer and a call that completes after unmount
\* leave the entry's data and timestamp as they were.
C26_CacheWrittenOnlyOnSuccess ==
  [][dataCache' # dataCache =>
       /\ \A c \in BagToSet(calls) :
            /\ \A err \in LoaderErrors : ~LoaderReject(c, err)
            /\ \A datasets \in RecordLists :
                 ~(LoaderResolve(c, datasets) /\ ~Mounted(c))
       /\ \A t \in BagToSet(timers) : ~TimerFire(t)
       /\ ~MountEffect
       /\ dataCache' # None =>
            \E c \in Live(calls), datasets \in RecordLists :
              /\ isMountedRef
              /\ LoaderResolve(c, datasets)
              /\ dataCache' = Some([data |-> datasets, timestamp |-> now])]_vars

\* an attached consumer has given up and the entry an earlier call wrote is
\* still in the cache
C26_Witness ==
  /\ last[1] = "reject" /\ last[2]
  /\ data = None
  /\ retryCount = opts.maxRetries
  /\ dataCache # None
  /\ Val(dataCache).timestamp < now

\* the larger of 1 and n
AtLeastOne(n) == IF n >= 1 THEN n ELSE 1

\* C27: for an attached consumer, retryCount is within 0..maxRetries, it is
\* attempt - 1 while the Loader call of attempt number `attempt` is
\* outstanding, and no load cycle reaches an attempt beyond
\* max(1, maxRetries).
C27_RetryCountTracksAttempt ==
  phase = "mounted" =>
    /\ retryCount \in 0..opts.maxRetries
    /\ \A c \in Live(calls) : retryCount = c.attempt - 1
    /\ \A c \in Live(calls) : c.attempt \in 1..AtLeastOne(opts.maxRetries)

\* the bounds alone, whatever the number of cycles under way
C27_Bounds ==
  phase = "mounted" =>
    /\ retryCount \in 0..opts.maxRetries
    /\ \A c \in Live(calls) : c.attempt \in 1..AtLeastOne(opts.maxRetries)

====
